---- MODULE Spec2Model ----
(***************************************************************************)
(* State-machine model of the Summarizer subsystem (container-runtime      *)
(* summarizer.ts): SummarizerHeuristics, RunningSummarizer and the         *)
(* Summarizer facade, run on one cooperative JavaScript context.           *)
(*                                                                         *)
(* Every handler is one atomic action up to its next await.  A            *)
(* continuation that is already scheduled (a microtask) runs before any    *)
(* new op, timer or host call is delivered.                                *)
(***************************************************************************)
EXTENDS Integers, Sequences, FiniteSets, Bags, TLC

\* ---------------------------------------------------------------- bounds
MaxStreamOps == 2       \* stream events (batches, system ops, summary ops)
MaxNow == 2             \* largest clock value
MaxTriggers == 2        \* the coalesced-trigger count saturates here
idleTime == 1           \* configuration.idleTime
maxTime == 1            \* configuration.maxTime
maxOps == 1             \* configuration.maxOps
maxAckWaitTimeCfg == 1  \* configuration.maxAckWaitTime
OpSteps == {1, 51}      \* sizes of the batches the stream delivers
MaxAttemptOps == 5      \* stream events of the runs that follow attempts
MaxFaults == 1          \* errors thrown into the ack-refresh loop
MaxWorkItems == 3       \* TaskObject and RevokeObject messages of a worker

\* ------------------------------------------------------ program constants
minOpsForLastSummary == 50
maxSummarizeAckWaitTime == 120000
initialSequenceNumber == 0   \* deltaManager.initialSequenceNumber
onBehalfOfClientId == "parent"   \* the client run() was called on behalf of
runtimeClientId == "summarizer" \* runtime.clientId
ClientIds == {"parent", "summarizer", "other"}
Docs == {"docA", "docB"}         \* document ids the worker is asked about
\* the cases of the switches of processDocumentWork and revokeDocumentWork
WorkTypes == {"snapshot", "intel", "spell", "translation", "ping"}
\* the work types a message can carry
RequestedTypes == WorkTypes \cup {"unknown"}

Undefined == -1
NoTimer == -1

VARIABLES
    now,                  \* Date.now()
    streamSeq,            \* deltaManager.lastSequenceNumber
    streamOps,            \* stream events delivered so far
    streamBudget,         \* stream events the environment delivers at most
    faults, faultBudget,  \* errors thrown into the ack-refresh loop, and the
                          \* most the environment throws
    latestAck,            \* the summary collection's latest ack
    ackLoop,              \* Summarizer.handleSummaryAcks: its position, its
                          \* local refSequenceNumber, the argument of its
                          \* last waitSummaryAck and the acks it refreshed
    connected,            \* runtime.connected
    elected,              \* computed summarizer is onBehalfOf or this client
    summarizerClientId,   \* runtime.summarizerClientId
    configuration,        \* the ISummaryConfiguration passed to start
    defaultTimeout,       \* the timeout the pending-ack PromiseTimer was
                          \* constructed with (Undefined before that)
    ackByOpsTimeout,      \* the wait handed to the collection with the
                          \* ack-by-ops fallback (Undefined before that)
    \* WorkerService
    documentMap,          \* docId -> work type -> the registered worker
    pendingWork,          \* work items whose getServiceForDoc is pending
    started,              \* workers whose start() ran and stop() did not
    workItems,            \* TaskObject and RevokeObject messages so far
    coordStopped,         \* runCoordinator.waitStopped() has resolved
    \* SummarizerHeuristics
    lastOpSeqNumber, lastAttempted, lastAcked,
    aliased,              \* _lastAcked and _lastAttempted are one object
    idleTimer,            \* deadline of the idle timer, or NoTimer
    \* RunningSummarizer
    stopping, rsDisposed, summarizing, summarizeCount, tryWhileSummarizing,
    summarizeTimer,       \* TRUE while the long-summarize timer is armed
    pendingAckTimer,      \* deadline of the promise-timer, or NoTimer
    watcherDisposed,      \* summaryWatcher.dispose() was called
    ackByOpsCallback,     \* the collection's ack-by-ops fallback is installed
    escs,                 \* the escalations (async bodies of trySummarize)
    \* Summarizer facade
    fpc,                  \* position of run()
    stopped, fDisposed, runningSummarizer, listeners,
    stopReason,           \* reason of the stop() call that took effect
    outstandingOps,       \* local of waitStop (Undefined before it is set)
    wsReleased,           \* the promise waitStop awaits has resolved
    cleanupConnected,     \* runtime.connected as read by run's cleanup
    \* observations
    closeFnCalled, waitStopCalled, waitStopReturned,
    stopInFlight,         \* stop() took effect during the current escalation
    lastSummaryTriggers,  \* trySummarize("lastSummary") calls made so far
    opTime,               \* when the last op was handled, as long as the idle
                          \* timer has stayed armed since (else Undefined)
    kTriggers,            \* op, Save and idle triggers coalesced by the
                          \* current escalation
    followUp,             \* the finalizer just run made the follow-up run()
    event                 \* the op or startup race outcome just delivered
vars == << now, streamSeq, streamOps, connected, elected, coordStopped,
           summarizerClientId, configuration, defaultTimeout,
           ackByOpsTimeout, documentMap, pendingWork, started, workItems,
           lastOpSeqNumber, lastAttempted, lastAcked, aliased, idleTimer,
           stopping, rsDisposed, summarizing, summarizeCount,
           tryWhileSummarizing, summarizeTimer, pendingAckTimer,
           watcherDisposed, escs, fpc, stopped, fDisposed,
           runningSummarizer, listeners, outstandingOps, wsReleased,
           cleanupConnected, closeFnCalled, waitStopCalled,
           waitStopReturned, stopInFlight, kTriggers, followUp,
           ackByOpsCallback, event, streamBudget, stopReason, faults,
           faultBudget, latestAck, ackLoop, lastSummaryTriggers, opTime >>

\* no op and no startup race outcome is being delivered
NoEvent == [kind |-> "none"]

\* The whole state as one record, so that a handler can call another.
St ==
    [ now |-> now, streamSeq |-> streamSeq, streamOps |-> streamOps,
      connected |-> connected,
      elected |-> elected, coordStopped |-> coordStopped,
      summarizerClientId |-> summarizerClientId,
      configuration |-> configuration, defaultTimeout |-> defaultTimeout,
      ackByOpsTimeout |-> ackByOpsTimeout,
      documentMap |-> documentMap, pendingWork |-> pendingWork,
      started |-> started, workItems |-> workItems,
      lastOpSeqNumber |-> lastOpSeqNumber, lastAttempted |-> lastAttempted,
      lastAcked |-> lastAcked, aliased |-> aliased, idleTimer |-> idleTimer,
      stopping |-> stopping, rsDisposed |-> rsDisposed,
      summarizing |-> summarizing, summarizeCount |-> summarizeCount,
      tryWhileSummarizing |-> tryWhileSummarizing,
      summarizeTimer |-> summarizeTimer, pendingAckTimer |-> pendingAckTimer,
      watcherDisposed |-> watcherDisposed, escs |-> escs, fpc |-> fpc,
      stopped |-> stopped, fDisposed |-> fDisposed,
      runningSummarizer |-> runningSummarizer, listeners |-> listeners,
      outstandingOps |-> outstandingOps, wsReleased |-> wsReleased,
      cleanupConnected |-> cleanupConnected, closeFnCalled |-> closeFnCalled,
      waitStopCalled |-> waitStopCalled,
      waitStopReturned |-> waitStopReturned, stopInFlight |-> stopInFlight,
      kTriggers |-> kTriggers, followUp |-> FALSE,
      ackByOpsCallback |-> ackByOpsCallback, event |-> NoEvent,
      streamBudget |-> streamBudget, stopReason |-> stopReason,
      faults |-> faults, faultBudget |-> faultBudget,
      latestAck |-> latestAck, ackLoop |-> ackLoop,
      lastSummaryTriggers |-> lastSummaryTriggers, opTime |-> opTime ]

Apply(s) ==
    /\ now' = s.now /\ streamSeq' = s.streamSeq /\ streamOps' = s.streamOps
    /\ connected' = s.connected
    /\ elected' = s.elected /\ coordStopped' = s.coordStopped
    /\ summarizerClientId' = s.summarizerClientId
    /\ configuration' = s.configuration
    /\ defaultTimeout' = s.defaultTimeout
    /\ ackByOpsTimeout' = s.ackByOpsTimeout
    /\ documentMap' = s.documentMap /\ pendingWork' = s.pendingWork
    /\ started' = s.started /\ workItems' = s.workItems
    /\ lastOpSeqNumber' = s.lastOpSeqNumber
    /\ lastAttempted' = s.lastAttempted /\ lastAcked' = s.lastAcked
    /\ aliased' = s.aliased /\ idleTimer' = s.idleTimer
    /\ stopping' = s.stopping /\ rsDisposed' = s.rsDisposed
    /\ summarizing' = s.summarizing /\ summarizeCount' = s.summarizeCount
    /\ tryWhileSummarizing' = s.tryWhileSummarizing
    /\ summarizeTimer' = s.summarizeTimer
    /\ pendingAckTimer' = s.pendingAckTimer
    /\ watcherDisposed' = s.watcherDisposed /\ escs' = s.escs
    /\ fpc' = s.fpc /\ stopped' = s.stopped /\ fDisposed' = s.fDisposed
    /\ runningSummarizer' = s.runningSummarizer /\ listeners' = s.listeners
    /\ outstandingOps' = s.outstandingOps /\ wsReleased' = s.wsReleased
    /\ cleanupConnected' = s.cleanupConnected
    /\ closeFnCalled' = s.closeFnCalled
    /\ waitStopCalled' = s.waitStopCalled
    /\ waitStopReturned' = s.waitStopReturned
    /\ stopInFlight' = s.stopInFlight /\ kTriggers' = s.kTriggers
    /\ followUp' = s.followUp
    /\ ackByOpsCallback' = s.ackByOpsCallback /\ event' = s.event
    /\ streamBudget' = s.streamBudget /\ stopReason' = s.stopReason
    /\ faults' = s.faults /\ faultBudget' = s.faultBudget
    /\ latestAck' = s.latestAck /\ ackLoop' = s.ackLoop
    /\ lastSummaryTriggers' = s.lastSummaryTriggers
    /\ opTime' = IF s.idleTimer = NoTimer THEN Undefined ELSE s.opTime

Min(a, b) == IF a <= b THEN a ELSE b

\* a map without keys
EmptyMap == [k \in {} |-> k]

RemoveAt(q, i) == [j \in 1..(Len(q) - 1) |-> IF j < i THEN q[j] ELSE q[j + 1]]

\* ISummaryAttempt
Attempt(ref, time, sseq) ==
    [refSequenceNumber |-> ref, summaryTime |-> time,
     summarySequenceNumber |-> sseq]

\* ------------------------------------------------------------ the facade

\* stop without the test of `stopped`
StopUnguarded(s, reason) ==
    [s EXCEPT !.stopped = TRUE,
              !.stopReason = reason,
              !.stopInFlight = s.summarizing]

\* Summarizer.stop
Stop(s, reason) ==
    IF s.stopped THEN s
    ELSE [s EXCEPT !.stopped = TRUE,
                   !.stopReason = reason,
                   !.stopInFlight = s.summarizing]

\* generateSummary that stops when the computed summarizer differs from one
\* of the two ids
FacadeGenerateSummaryEither(s) ==
    IF onBehalfOfClientId # s.summarizerClientId
           \/ runtimeClientId # s.summarizerClientId
    THEN Stop(s, "parentNoLongerSummarizer")
    ELSE s

\* Summarizer.generateSummary: the generator is called, then the computed
\* summarizer is compared with the two ids
FacadeGenerateSummary(s) ==
    IF onBehalfOfClientId # s.summarizerClientId
           /\ runtimeClientId # s.summarizerClientId
    THEN Stop(s, "parentNoLongerSummarizer")
    ELSE s

\* an acked summary of the collection: the reference sequence number of its
\* summarize op, and the sequence number of that op, which stands for the
\* proposal handle and the ack handle
SummaryAck(ref, sseq) == [refSequenceNumber |-> ref, handle |-> sseq]

NoSummaryAck == SummaryAck(Undefined, Undefined)

\* handleSummaryAcks has not been called
LoopOff ==
    [pc |-> "off", refSequenceNumber |-> Undefined, waited |-> Undefined,
     refreshed |-> << >>,
     warning |-> "none"]    \* the summarizingError its catch made emit

\* summaryCollection.waitSummaryAck(refSequenceNumber) can resolve
AckReady(s) ==
    /\ s.latestAck # NoSummaryAck
    /\ s.latestAck.refSequenceNumber >= s.ackLoop.waited

\* handleSummaryAcks at the test of its while loop
handleSummaryAcksTest(s, refSequenceNumber) ==
    IF s.runningSummarizer
    THEN [s EXCEPT !.ackLoop.pc = "waiting",
                   !.ackLoop.refSequenceNumber = refSequenceNumber,
                   !.ackLoop.waited = refSequenceNumber]
    ELSE [s EXCEPT !.ackLoop.pc = "ended",
                   !.ackLoop.refSequenceNumber = refSequenceNumber]

\* an iteration that goes round without `refSequenceNumber++`
handleSummaryAcksNextSame(s) ==
    handleSummaryAcksTest(s, s.ackLoop.refSequenceNumber)

\* the end of an iteration of handleSummaryAcks: refSequenceNumber++
handleSummaryAcksNext(s) ==
    handleSummaryAcksTest(s, s.ackLoop.refSequenceNumber + 1)

\* the catch of runCore on handleSummaryAcks()
handleSummaryAckFatal(s) ==
    [Stop(s, "undefined") EXCEPT
        !.ackLoop.pc = "fatal",
        !.ackLoop.warning = "Summarizer: HandleSummaryAckFatalError"]

\* a loop whose catch gives up: it warns and stops like the fatal path
handleSummaryAcksWaitedGivesUp(s, outcome) ==
    IF outcome = "throw"
    THEN handleSummaryAckFatal(s)
    ELSE [s EXCEPT !.ackLoop.pc = "refreshing",
                   !.ackLoop.refSequenceNumber =
                       s.latestAck.refSequenceNumber,
                   !.ackLoop.refreshed = Append(@, s.latestAck)]

\* handleSummaryAcks after waitSummaryAck has settled: with the latest ack it
\* calls refreshLatestSummaryAck, a rejection is caught and logged
handleSummaryAcksWaited(s, outcome) ==
    IF outcome = "throw"
    THEN handleSummaryAcksNext(s)
    ELSE [s EXCEPT !.ackLoop.pc = "refreshing",
                   !.ackLoop.refSequenceNumber =
                       s.latestAck.refSequenceNumber,
                   !.ackLoop.refreshed = Append(@, s.latestAck)]

\* handleSummaryAcks after refreshLatestSummaryAck has settled; "escape" is
\* a rejection whose logging in the catch throws in its turn
handleSummaryAcksRefreshed(s, outcome) ==
    IF outcome = "escape"
    THEN handleSummaryAckFatal(s)
    ELSE handleSummaryAcksNext(s)

\* runCore's preconditions in a different order: the write access first
notStartedReasonWriteFirst(startResult, active, computed) ==
    IF ~active THEN "CannotWrite"
    ELSE IF ~startResult.started THEN startResult.message
    ELSE IF ~computed THEN "DifferentComputedSummarizer"
    ELSE "none"

\* the preconditions of runCore: the reason of its NotStarted event, "none"
\* when they all hold.  `active` is deltaManager.active, `computed` tells
\* that the computed summarizer is onBehalfOf or this client.
notStartedReason(startResult, active, computed) ==
    IF ~startResult.started THEN startResult.message
    ELSE IF ~active THEN "CannotWrite"
    ELSE IF ~computed THEN "DifferentComputedSummarizer"
    ELSE "none"

\* runCoordinator.waitStart(): the coordinator starts a run only while the
\* client is connected and has not been told to stop
waitStart(s) ==
    IF s.connected /\ ~s.coordStopped
    THEN [started |-> TRUE, message |-> "none"]
    ELSE [started |-> FALSE, message |-> "DisconnectedBeforeRun"]

\* ------------------------------------------------- SummarizerHeuristics

\* SummarizerHeuristics.initialize
initialize(s, lastSummary) ==
    [s EXCEPT !.lastAttempted = lastSummary, !.lastAcked = lastSummary,
              !.aliased = TRUE]

\* recordAttempt whose default is one past the last op seen
recordAttemptAhead(s, refSequenceNumber) ==
    [s EXCEPT !.lastAttempted =
                  Attempt(IF refSequenceNumber = Undefined
                              THEN s.lastOpSeqNumber + 1
                              ELSE refSequenceNumber,
                          s.now, Undefined),
              !.aliased = FALSE]

\* recordAttempt that writes into the record _lastAttempted refers to
recordAttemptInPlace(s, refSequenceNumber) ==
    LET attempt == Attempt(IF refSequenceNumber = Undefined
                               THEN s.lastOpSeqNumber
                               ELSE refSequenceNumber,
                           s.now, Undefined)
    IN  [s EXCEPT !.lastAttempted = attempt,
                  !.lastAcked = IF s.aliased THEN attempt ELSE @]

\* SummarizerHeuristics.recordAttempt
recordAttempt(s, refSequenceNumber) ==
    [s EXCEPT !.lastAttempted =
                  Attempt(IF refSequenceNumber = Undefined
                              THEN s.lastOpSeqNumber
                              ELSE refSequenceNumber,
                          s.now, Undefined),
              !.aliased = FALSE]

\* ackLastSent that forgets the copy
ackLastSentDrop(s) == s

\* SummarizerHeuristics.ackLastSent
ackLastSent(s) ==
    [s EXCEPT !.lastAcked = s.lastAttempted, !.aliased = TRUE]

\* ---------------------------------------------------- RunningSummarizer

Options(refresh, full) == [refreshLatestAck |-> refresh, fullTree |-> full]

Call(reason, options) ==
    [reason |-> reason, refreshLatestAck |-> options.refreshLatestAck,
     fullTree |-> options.fullTree]

\* summarize that counts the attempt twice
summarizeBeginCountsTwice(s, i, reason, options) ==
    LET s1 == [s EXCEPT !.summarizeCount = s.summarizeCount + 2,
                        !.summarizeTimer = TRUE,
                        !.escs[i].pc = "generate",
                        !.escs[i].calls =
                            Append(s.escs[i].calls, Call(reason, options)),
                        !.escs[i].startTime = s.now,
                        !.escs[i].genRef = Undefined,
                        !.escs[i].sawBroadcast = FALSE,
                        !.escs[i].cause = "none",
                        !.escs[i].warning = "none",
                        !.escs[i].emitted = 0,
                        !.escs[i].raised = 0]
    IN  FacadeGenerateSummary(s1)

\* RunningSummarizer.summarize, up to the await of generateSummary, for
\* escalation i
summarizeBegin(s, i, reason, options) ==
    LET s1 == [s EXCEPT !.summarizeCount = s.summarizeCount + 1,
                        !.summarizeTimer = TRUE,
                        !.escs[i].pc = "generate",
                        !.escs[i].calls =
                            Append(s.escs[i].calls, Call(reason, options)),
                        !.escs[i].startTime = s.now,
                        !.escs[i].genRef = Undefined,
                        !.escs[i].sawBroadcast = FALSE,
                        !.escs[i].cause = "none",
                        !.escs[i].warning = "none",
                        !.escs[i].emitted = 0,
                        !.escs[i].raised = 0]
    IN  FacadeGenerateSummary(s1)

NewEscalation(reason) ==
    [reason |-> reason, pc |-> "new", calls |-> << >>, results |-> << >>,
     message |-> "none", stopCalled |-> FALSE,
     startTime |-> Undefined,   \* Date.now() when the attempt began
     genRef |-> Undefined,      \* summaryData?.referenceSequenceNumber
     sawBroadcast |-> FALSE,    \* waitBroadcast() resolved for the proposal
     cause |-> "none",          \* what ended the attempt
     warning |-> "none",        \* last argument of raiseSummarizingError
     emitted |-> 0,             \* summarizingError events the attempt made
     raised |-> 0,              \* raiseSummarizingError calls in the attempt
                                \* the facade emit
     count0 |-> Undefined]      \* summarizeCount when it began

\* trySummarize without the test of `summarizing`
trySummarizeUnguarded(s, reason) ==
    LET s1 == [s EXCEPT !.summarizing = TRUE,
                        !.kTriggers = 0,
                        !.escs = Append(s.escs,
                                        [NewEscalation(reason) EXCEPT
                                            !.count0 = s.summarizeCount])]
    IN  summarizeBegin(s1, Len(s1.escs), reason, Options(FALSE, FALSE))

\* RunningSummarizer.trySummarize, up to the first await of its async body
trySummarize(s, reason) ==
    IF s.summarizing
    THEN [s EXCEPT !.tryWhileSummarizing = TRUE,
                   !.kTriggers = IF reason = "lastSummary" THEN @
                                 ELSE Min(@ + 1, MaxTriggers)]
    ELSE LET s1 == [s EXCEPT !.summarizing = TRUE,
                             !.kTriggers = 0,
                             !.escs = Append(s.escs,
                                             [NewEscalation(reason) EXCEPT
                                                 !.count0 = s.summarizeCount])]
         IN  summarizeBegin(s1, Len(s1.escs), reason, Options(FALSE, FALSE))

\* run that triggers without cancelling the idle timer first
runKeepsTimer(s) ==
    LET timeSinceLastSummary == s.now - s.lastAcked.summaryTime
        opCountSinceLastSummary ==
            s.lastOpSeqNumber - s.lastAcked.refSequenceNumber
    IN  IF timeSinceLastSummary > maxTime
        THEN trySummarize(s, "maxTime")
        ELSE IF opCountSinceLastSummary > maxOps
        THEN trySummarize(s, "maxOps")
        ELSE [s EXCEPT !.idleTimer = s.now + idleTime]

\* run that looks at the op count before the time
runOpsFirst(s) ==
    LET s1 == [s EXCEPT !.idleTimer = NoTimer]
        timeSinceLastSummary == s.now - s.lastAcked.summaryTime
        opCountSinceLastSummary ==
            s.lastOpSeqNumber - s.lastAcked.refSequenceNumber
    IN  IF opCountSinceLastSummary > maxOps
        THEN trySummarize(s1, "maxOps")
        ELSE IF timeSinceLastSummary > maxTime
        THEN trySummarize(s1, "maxTime")
        ELSE [s1 EXCEPT !.idleTimer = s.now + idleTime]

\* SummarizerHeuristics.run
run(s) ==
    LET s1 == [s EXCEPT !.idleTimer = NoTimer]
        timeSinceLastSummary == s.now - s.lastAcked.summaryTime
        opCountSinceLastSummary ==
            s.lastOpSeqNumber - s.lastAcked.refSequenceNumber
    IN  IF timeSinceLastSummary > maxTime
        THEN trySummarize(s1, "maxTime")
        ELSE IF opCountSinceLastSummary > maxOps
        THEN trySummarize(s1, "maxOps")
        ELSE [s1 EXCEPT !.idleTimer = s.now + idleTime]

SaveReason(clientId, contents) == "save;" \o clientId \o ": " \o contents

\* handleOp that hands a Save op to the heuristics like any other op
handleOpSaveViaRun(s, error, op) ==
    IF error
    THEN s
    ELSE run([s EXCEPT !.lastOpSeqNumber = op.sequenceNumber,
                            !.opTime = s.now])

\* handleOp that does not look at `error`
handleOpIgnoresError(s, error, op) ==
    LET s1 == [s EXCEPT !.lastOpSeqNumber = op.sequenceNumber,
                            !.opTime = s.now]
    IN  IF op.type = "save"
        THEN trySummarize(s1, SaveReason(op.clientId, op.contents))
        ELSE run(s1)

\* RunningSummarizer.handleOp
handleOp(s, error, op) ==
    IF error
    THEN s
    ELSE LET s1 == [s EXCEPT !.lastOpSeqNumber = op.sequenceNumber,
                            !.opTime = s.now]
         IN  IF op.type = "save"
             THEN trySummarize(s1, SaveReason(op.clientId, op.contents))
             ELSE run(s1)

\* handleSystemOp that only spares the leave of this client
handleSystemOpSparesSelfOnly(s, op) ==
    IF op.type = "leave" /\ op.data = "self"
    THEN s
    ELSE IF op.type \in {"leave", "join", "propose", "reject"}
    THEN handleOp(s, FALSE, op)
    ELSE s

\* RunningSummarizer.handleSystemOp; op.data is the leaving client of a
\* leave op: "self", "parent" or "other"
handleSystemOp(s, op) ==
    IF op.type = "leave" /\ op.data \in {"self", "parent"}
    THEN s
    ELSE IF op.type \in {"leave", "join", "propose", "reject"}
    THEN handleOp(s, FALSE, op)
    ELSE s

\* one more trySummarize("lastSummary") is being made
LastSummary(s) ==
    [s EXCEPT !.lastSummaryTriggers = Min(@ + 1, MaxTriggers)]

\* waitStop that does not look at `stopping`
waitStopRetriggers(s) ==
    IF s.rsDisposed
    THEN [s EXCEPT !.wsReleased = TRUE]
    ELSE LET s1 == [s EXCEPT !.stopping = TRUE,
                             !.outstandingOps =
                                 s.lastOpSeqNumber
                                     - s.lastAcked.refSequenceNumber]
         IN  IF s1.outstandingOps > minOpsForLastSummary
             THEN LET s2 == trySummarize(LastSummary(s1), "lastSummary")
                  IN  [s2 EXCEPT !.wsReleased = ~s2.summarizing]
             ELSE [s1 EXCEPT !.wsReleased = TRUE]

\* waitStop that asks for the last summary whatever the lag
waitStopAlways(s) ==
    IF s.rsDisposed
    THEN [s EXCEPT !.wsReleased = TRUE]
    ELSE IF s.stopping
    THEN [s EXCEPT !.wsReleased = ~s.summarizing]
    ELSE LET s1 == [s EXCEPT !.stopping = TRUE,
                             !.outstandingOps =
                                 s.lastOpSeqNumber
                                     - s.lastAcked.refSequenceNumber]
             s2 == trySummarize(LastSummary(s1), "lastSummary")
         IN  [s2 EXCEPT !.wsReleased = ~s2.summarizing]

\* waitStop that returns without awaiting the attempt in flight
waitStopNoAwait(s) ==
    IF s.rsDisposed
    THEN [s EXCEPT !.wsReleased = TRUE]
    ELSE IF s.stopping
    THEN [s EXCEPT !.wsReleased = TRUE]
    ELSE LET s1 == [s EXCEPT !.stopping = TRUE,
                             !.outstandingOps =
                                 s.lastOpSeqNumber
                                     - s.lastAcked.refSequenceNumber]
         IN  IF s1.outstandingOps > minOpsForLastSummary
             THEN [trySummarize(LastSummary(s1), "lastSummary") EXCEPT !.wsReleased = TRUE]
             ELSE [s1 EXCEPT !.wsReleased = TRUE]

\* RunningSummarizer.waitStop, up to its await
waitStop(s) ==
    IF s.rsDisposed
    THEN [s EXCEPT !.wsReleased = TRUE]
    ELSE IF s.stopping
    THEN [s EXCEPT !.wsReleased = ~s.summarizing]
    ELSE LET s1 == [s EXCEPT !.stopping = TRUE,
                             !.outstandingOps =
                                 s.lastOpSeqNumber
                                     - s.lastAcked.refSequenceNumber]
         IN  IF s1.outstandingOps > minOpsForLastSummary
             THEN LET s2 == trySummarize(LastSummary(s1), "lastSummary")
                  IN  [s2 EXCEPT !.wsReleased = ~s2.summarizing]
             ELSE [s1 EXCEPT !.wsReleased = TRUE]

\* an ack-wait taken from the configuration as it is
maxAckWaitTimeUncapped(config) == config.maxAckWaitTime

\* the effective ack-wait of the RunningSummarizer constructor
maxAckWaitTime(config) == Min(config.maxAckWaitTime, maxSummarizeAckWaitTime)

\* the table summarizeErrors
summarizeErrors(message) ==
    CASE message = "generateSummaryFailure" ->
             "Error while generating or submitting summary"
      [] message = "summaryOpWaitTimeout" ->
             "Timeout while waiting for summarize op broadcast"
      [] message = "summaryAckWaitTimeout" ->
             "Timeout while waiting for summaryAck/summaryNack op"
      [] message = "summaryNack" ->
             "Server rejected summary via summaryNack op"

\* the raiseSummarizingError callback the facade hands to start, called in
\* attempt i: the observer gets a summarizingError unless the facade is
\* disposed
raiseSummarizingError(s, i, description) ==
    [s EXCEPT !.escs[i].warning = description,
              !.escs[i].raised = @ + 1,
              !.escs[i].emitted = IF s.fDisposed THEN @ ELSE @ + 1]

\* fail that returns false without raising the warning
failSilent(s, i, message) ==
    [s EXCEPT !.escs[i].results = Append(s.escs[i].results, FALSE),
              !.escs[i].message = message,
              !.escs[i].pc = "ret"]

\* the helper `fail` of summarize, followed by the return of false
fail(s, i, message) ==
    [raiseSummarizingError(s, i, summarizeErrors(message)) EXCEPT
        !.escs[i].results = Append(s.escs[i].results, FALSE),
        !.escs[i].message = message,
        !.escs[i].pc = "ret"]

\* the result of a race against the pending-ack promise is no timeout
checkNotTimeout(something) == something \notin {"timeout", "cancel"}

\* the continuation after the broadcast that restarts the pending-ack timer
summarizeAfterBroadcastRaceRestarts(s, i, something, sseq) ==
    IF ~checkNotTimeout(something)
    THEN fail([s EXCEPT !.pendingAckTimer = NoTimer,
                        !.escs[i].cause = something],
              i, "summaryOpWaitTimeout")
    ELSE [s EXCEPT !.lastAttempted.summarySequenceNumber = sseq,
                   !.lastAcked.summarySequenceNumber =
                       IF s.aliased THEN sseq ELSE @,
                   !.pendingAckTimer = s.now + s.defaultTimeout,
                   !.escs[i].sawBroadcast = TRUE,
                   !.escs[i].pc = "acknack"]

\* summarize after its race for the broadcast has settled with `something`
summarizeAfterBroadcastRace(s, i, something, sseq) ==
    IF ~checkNotTimeout(something)
    THEN fail([s EXCEPT !.pendingAckTimer = NoTimer,
                        !.escs[i].cause = something],
              i, "summaryOpWaitTimeout")
    ELSE [s EXCEPT !.lastAttempted.summarySequenceNumber = sseq,
                   !.lastAcked.summarySequenceNumber =
                       IF s.aliased THEN sseq ELSE @,
                   !.escs[i].sawBroadcast = TRUE,
                   !.escs[i].pc = "acknack"]

\* summarize after its race for the ack or nack has settled with `something`
summarizeAfterAckNackRace(s, i, something) ==
    IF ~checkNotTimeout(something)
    THEN fail([s EXCEPT !.pendingAckTimer = NoTimer,
                        !.escs[i].cause = something],
              i, "summaryAckWaitTimeout")
    ELSE LET s1 == [s EXCEPT !.pendingAckTimer = NoTimer,
                             !.escs[i].cause = something]
         IN  IF something = "summaryAck"
             THEN LET s2 == ackLastSent(s1)
                  IN  [s2 EXCEPT !.escs[i].results =
                                     Append(s2.escs[i].results, TRUE),
                                 !.escs[i].pc = "ret"]
             ELSE fail(s1, i, "summaryNack")

RECURSIVE SettleRacers(_, _, _)
\* The pending-ack promise settles with `how` ("timeout" when the timer
\* fired, "cancel" when it was cleared): every attempt racing against it goes
\* on with that result.
SettleRacers(s, i, how) ==
    IF i > Len(s.escs) THEN s
    ELSE IF s.escs[i].pc = "broadcast"
    THEN SettleRacers(summarizeAfterBroadcastRace(s, i, how, Undefined),
                      i + 1, how)
    ELSE IF s.escs[i].pc = "acknack"
    THEN SettleRacers(summarizeAfterAckNackRace(s, i, how), i + 1, how)
    ELSE SettleRacers(s, i + 1, how)

\* PromiseTimer.clear: the timer is cancelled and its promise is settled
clearPendingAckTimer(s) ==
    SettleRacers([s EXCEPT !.pendingAckTimer = NoTimer], 1, "cancel")

RECURSIVE RaiseInAttempts(_, _, _)
\* raiseSummarizingError(description), noted in the attempts under way
RaiseInAttempts(s, i, description) ==
    IF i > Len(s.escs) THEN s
    ELSE RaiseInAttempts(raiseSummarizingError(s, i, description),
                         i + 1, description)

\* a promise-timer whose promise stays pending when the timer fires
firePendingAckTimerUnsettled(s) ==
    RaiseInAttempts([s EXCEPT !.pendingAckTimer = NoTimer], 1,
                    "SummaryAckWaitTimeout")

\* a promise-timer constructed without a handler
firePendingAckTimerNoHandler(s) ==
    SettleRacers([s EXCEPT !.pendingAckTimer = NoTimer], 1, "timeout")

\* the pending-ack timer fires: its handler runs, then its promise resolves
\* with the timeout marker
firePendingAckTimer(s) ==
    SettleRacers(
        RaiseInAttempts([s EXCEPT !.pendingAckTimer = NoTimer], 1,
                        "SummaryAckWaitTimeout"),
        1, "timeout")

\* dispose that leaves the heuristics' idle timer alone
rsDisposeKeepsIdle(s) ==
    clearPendingAckTimer(
        [s EXCEPT !.watcherDisposed = TRUE,
                  !.summarizeTimer = FALSE, !.rsDisposed = TRUE])

\* RunningSummarizer.dispose
rsDispose(s) ==
    clearPendingAckTimer(
        [s EXCEPT !.watcherDisposed = TRUE, !.idleTimer = NoTimer,
                  !.summarizeTimer = FALSE, !.rsDisposed = TRUE])

\* Summarizer.dispose
dispose(s) ==
    LET s1 == [s EXCEPT !.fDisposed = TRUE]
        s2 == IF s1.runningSummarizer
              THEN [rsDispose(s1) EXCEPT !.runningSummarizer = FALSE]
              ELSE s1
    IN  [s2 EXCEPT !.listeners = FALSE]

\* start that runs the heuristics before it installs the flushed ack
startContinueRunsFirst(s, notTimeout, maybeLastAck) ==
    LET s1 == [s EXCEPT !.pendingAckTimer = NoTimer,
                        !.ackByOpsCallback = FALSE]
        s2 == run(s1)
        s3 == IF notTimeout THEN initialize(s2, maybeLastAck) ELSE s2
        s4 == handleSummaryAcksTest([s3 EXCEPT !.runningSummarizer = TRUE],
                                    initialSequenceNumber)
    IN  [s4 EXCEPT !.listeners = TRUE, !.fpc = "running"]

\* RunningSummarizer.start from the end of the waitStart race on, and the
\* rest of Summarizer.runCore up to its await of the stop race
startContinue(s, notTimeout, maybeLastAck) ==
    LET s1 == [s EXCEPT !.pendingAckTimer = NoTimer,
                        !.ackByOpsCallback = FALSE]
        s2 == IF notTimeout THEN initialize(s1, maybeLastAck) ELSE s1
        s3 == run(s2)
        s4 == handleSummaryAcksTest([s3 EXCEPT !.runningSummarizer = TRUE],
                                    initialSequenceNumber)
    IN  [s4 EXCEPT !.listeners = TRUE, !.fpc = "running"]

\* the waitStart race has ended in the way `how`, with the ack it yielded
StartEvent(how, maybeLastAck) ==
    [kind |-> "start", how |-> how, ack |-> maybeLastAck]

\* an op handed to a listener of the facade
OpEvent(kind, error, op) == [kind |-> kind, error |-> error, op |-> op]

\* the generator has settled with `outcome`, reporting `ref` when it returns
GeneratedEvent(outcome, ref) ==
    [kind |-> "generated", outcome |-> outcome, ref |-> ref]

\* an await of handleSummaryAcks has settled with `outcome`
LoopEvent(awaited, outcome) ==
    [kind |-> "ackLoop", awaited |-> awaited, outcome |-> outcome]

\* the attempt that stands for `no ack`
NoAck == Attempt(Undefined, Undefined, Undefined)

\* ------------------------------------------------------------ scheduling

\* a continuation of an escalation is scheduled
EscMicro == \E i \in DOMAIN escs : escs[i].pc \in {"ret", "fin"}

\* a continuation of Summarizer.run is scheduled
FacadeMicro ==
    \/ fpc = "running" /\ (stopped \/ coordStopped)
    \/ fpc = "waitStop" /\ wsReleased

\* a continuation of handleSummaryAcks is scheduled
AckMicro ==
    \/ ackLoop.pc = "waiting" /\ AckReady(St)
    \/ ackLoop.pc = "refreshing"

\* the context is idle: an op, a timer or a host call can be delivered
Quiet == ~EscMicro /\ ~FacadeMicro /\ ~AckMicro

\* the run has not ended, or an escalation outlives it
Live == fpc # "done" \/ escs # << >>

\* run() has not begun its cleanup: it still reads the runtime's connection
\* and the election
Attentive == fpc \in {"notRun", "starting", "running"}

\* --------------------------------------------------------------- actions

\* the ordering service sequences d more ops
Sequenced(s, d) ==
    [s EXCEPT !.streamSeq = s.streamSeq + d, !.streamOps = s.streamOps + 1]

\* the summary collection takes a summaryAck for the last summarize op
Collected(s, type) ==
    IF type = "summaryAck"
    THEN [s EXCEPT !.latestAck =
                       SummaryAck(s.lastAttempted.refSequenceNumber,
                                  s.lastAttempted.summarySequenceNumber)]
    ELSE s

\* the state before run() is called, whatever the configuration
Unstarted ==
    /\ now = 0 /\ streamSeq = initialSequenceNumber /\ streamOps = 0
    /\ connected = TRUE /\ elected = TRUE /\ coordStopped = FALSE
    /\ summarizerClientId = onBehalfOfClientId
    /\ defaultTimeout = Undefined /\ ackByOpsTimeout = Undefined
    /\ documentMap = EmptyMap /\ pendingWork = EmptyBag
    /\ started = EmptyBag /\ workItems = 0
    /\ lastOpSeqNumber = 0
    /\ lastAttempted = Attempt(0, 0, Undefined)
    /\ lastAcked = Attempt(0, 0, Undefined)
    /\ aliased = TRUE /\ idleTimer = NoTimer
    /\ stopping = FALSE /\ rsDisposed = FALSE /\ summarizing = FALSE
    /\ summarizeCount = 0 /\ tryWhileSummarizing = FALSE
    /\ summarizeTimer = FALSE /\ pendingAckTimer = NoTimer
    /\ watcherDisposed = FALSE /\ escs = << >>
    /\ fpc = "notRun" /\ stopped = FALSE /\ fDisposed = FALSE
    /\ runningSummarizer = FALSE /\ listeners = FALSE
    /\ outstandingOps = Undefined /\ wsReleased = FALSE
    /\ cleanupConnected = FALSE
    /\ closeFnCalled = FALSE /\ waitStopCalled = FALSE
    /\ waitStopReturned = FALSE /\ stopInFlight = FALSE
    /\ kTriggers = 0 /\ followUp = FALSE
    /\ ackByOpsCallback = FALSE /\ event = NoEvent
    /\ stopReason = "none" /\ faults = 0
    /\ latestAck = NoSummaryAck /\ ackLoop = LoopOff
    /\ lastSummaryTriggers = 0 /\ opTime = Undefined

\* the state before run() is called, under the small configuration
Blank == Unstarted /\ configuration = [maxAckWaitTime |-> maxAckWaitTimeCfg]

\* a summarizer about to run, in an environment of few stream events and no
\* error in the ack-refresh loop
Init == Blank /\ streamBudget = MaxStreamOps /\ faultBudget = 0

\* the clock advances; time is counted from the call of run()
Tick ==
    /\ Quiet /\ Live /\ fpc # "notRun" /\ now < MaxNow
    /\ now' = now + 1
    /\ event' = NoEvent /\ followUp' = FALSE
    /\ UNCHANGED << ackByOpsCallback, streamBudget, stopReason, faults,
           faultBudget, latestAck, ackLoop, lastSummaryTriggers, opTime,
           streamSeq, streamOps, connected, elected, coordStopped,
           summarizerClientId, configuration, defaultTimeout,
           ackByOpsTimeout, documentMap, pendingWork, started, workItems,
           lastOpSeqNumber, lastAttempted, lastAcked, aliased, idleTimer,
           stopping, rsDisposed, summarizing, summarizeCount,
           tryWhileSummarizing, summarizeTimer, pendingAckTimer,
           watcherDisposed, escs, fpc, stopped, fDisposed,
           runningSummarizer, listeners, outstandingOps, wsReleased,
           cleanupConnected, closeFnCalled, waitStopCalled,
           waitStopReturned, stopInFlight, kTriggers >>

\* ops sequenced while no listener of the facade is installed
StreamAdvance ==
    /\ Quiet /\ Live /\ ~listeners
    /\ \E d \in OpSteps :
          /\ streamOps < streamBudget
          /\ Apply(Sequenced(St, d))

\* the runtime's batchEnd event: opListener, i.e. handleOp(error, op)
BatchEnd ==
    /\ Quiet /\ listeners
    /\ \E d \in OpSteps, error \in BOOLEAN, type \in {"op", "save"} :
          \* a long batch ends with an ordinary op that is handled
          /\ (error \/ type = "save") => d = 1
          /\ LET op == [type |-> type, sequenceNumber |-> streamSeq + d,
                        clientId |-> "c", contents |-> "x"]
             IN  /\ streamOps < streamBudget
                 /\ Apply([handleOp(Sequenced(St, d), error, op)
                              EXCEPT !.event =
                                         OpEvent("batchEnd", error, op)])

\* the inbound "op" event: systemOpListener, i.e. handleSystemOp(op)
InboundOp ==
    /\ Quiet /\ listeners
    /\ \E type \in {"leave", "join", "propose", "reject", "noop"},
          data \in {"self", "parent", "other"} :
          /\ type # "leave" => data = "other"
          /\ LET op == [type |-> type, sequenceNumber |-> streamSeq + 1,
                        data |-> data]
             IN  /\ streamOps < streamBudget
                 /\ Apply([handleSystemOp(Sequenced(St, 1), op)
                              EXCEPT !.event = OpEvent("system", FALSE, op)])

\* the idle timer fires: () => this.trySummarize("idle")
IdleTimerFire ==
    /\ Quiet /\ idleTimer # NoTimer /\ now >= idleTimer
    /\ Apply([trySummarize([St EXCEPT !.idleTimer = NoTimer], "idle")
                 EXCEPT !.event = [kind |-> "idle"]])

\* the pending-ack promise-timer fires, at startup or in an attempt
PendingAckTimerFire ==
    /\ Quiet /\ pendingAckTimer # NoTimer /\ now >= pendingAckTimer
    /\ IF fpc = "starting"
       THEN Apply([startContinue(St, checkNotTimeout("timeout"), NoAck)
                      EXCEPT !.event = StartEvent("timeout", NoAck)])
       ELSE Apply(firePendingAckTimer(St))

\* the collection's ack-by-ops fallback runs: it clears the pending-ack timer
AckByOpsFallback ==
    /\ Quiet /\ ackByOpsCallback /\ pendingAckTimer # NoTimer
    /\ IF fpc = "starting"
       THEN Apply([startContinue(St, checkNotTimeout("cancel"), NoAck)
                      EXCEPT !.event = StartEvent("cancel", NoAck)])
       ELSE Apply(clearPendingAckTimer(St))

\* summarize that records the attempt only when the generator returned
summarizeGeneratedNoFinally(s, i, outcome, ref) ==
    LET referenceSequenceNumber == IF outcome = "throw" THEN Undefined ELSE ref
        s0 == IF outcome = "throw" THEN s
              ELSE recordAttempt(s, referenceSequenceNumber)
        s1 == [s0 EXCEPT !.summarizeTimer = FALSE,
                         !.escs[i].genRef = referenceSequenceNumber]
    IN  IF outcome = "submitted"
        THEN [s1 EXCEPT !.pendingAckTimer = s.now + s.defaultTimeout,
                        !.escs[i].pc = "broadcast"]
        ELSE fail([s1 EXCEPT !.escs[i].cause = outcome], i,
                  "generateSummaryFailure")

\* summarize from the settling of generateSummary to its next await or to
\* its return; `ref` is the reference sequence number the generator reports
summarizeGenerated(s, i, outcome, ref) ==
    LET referenceSequenceNumber == IF outcome = "throw" THEN Undefined ELSE ref
        s1 == [recordAttempt(s, referenceSequenceNumber) EXCEPT
                  !.summarizeTimer = FALSE,
                  !.escs[i].genRef = referenceSequenceNumber]
    IN  IF outcome = "submitted"
        THEN [s1 EXCEPT !.pendingAckTimer = s.now + s.defaultTimeout,
                        !.escs[i].pc = "broadcast"]
        ELSE fail([s1 EXCEPT !.escs[i].cause = outcome], i,
                  "generateSummaryFailure")

\* generateSummary settles for an escalation
GenerateSummaryDone ==
    \E i \in DOMAIN escs, outcome \in {"throw", "notSubmitted", "submitted"} :
        /\ escs[i].pc = "generate"
        /\ ~FacadeMicro
        /\ Apply([summarizeGenerated(St, i, outcome, streamSeq)
                     EXCEPT !.event = GeneratedEvent(outcome, streamSeq)])

\* the summarize op of an escalation is broadcast
Broadcast ==
    \E i \in DOMAIN escs :
        /\ Quiet /\ ~watcherDisposed
        /\ escs[i].pc = "broadcast"
        /\ streamOps < streamBudget
        /\ Apply(summarizeAfterBroadcastRace(Sequenced(St, 1), i, "summarize",
                                             streamSeq + 1))

\* an ack or nack that is taken before the broadcast has been seen
AckNackUnordered ==
    \E i \in DOMAIN escs, type \in {"summaryAck", "summaryNack"} :
        /\ Quiet /\ ~watcherDisposed
        /\ escs[i].pc \in {"broadcast", "acknack"}
        /\ streamOps < streamBudget
        /\ Apply(summarizeAfterAckNackRace(Collected(Sequenced(St, 1), type),
                                           i, type))

\* the summaryAck or summaryNack of an escalation arrives
AckNack ==
    \E i \in DOMAIN escs, type \in {"summaryAck", "summaryNack"} :
        /\ Quiet /\ ~watcherDisposed
        /\ escs[i].pc = "acknack"
        /\ streamOps < streamBudget
        /\ Apply(summarizeAfterAckNackRace(Collected(Sequenced(St, 1), type),
                                           i, type))

\* a summaryAck or summaryNack is sequenced ahead of the summarize op it
\* answers: the collection does not resolve waitAckNack() with it
StrayAckNack ==
    \E i \in DOMAIN escs, type \in {"summaryAck", "summaryNack"} :
        /\ Quiet /\ ~watcherDisposed
        /\ escs[i].pc = "broadcast"
        /\ streamOps < streamBudget
        /\ Apply([Sequenced(St, 1) EXCEPT
                     !.event = OpEvent("stray", FALSE, [type |-> type])])

\* the escalation goes from the first failure straight to the full tree
escContinueSkipsRetry1(s, i) ==
    LET e == s.escs[i]
        n == Len(e.results)
    IN  IF e.results[n]
        THEN [s EXCEPT !.escs[i].pc = "fin"]
        ELSE IF n = 1
        THEN summarizeBegin(s, i, "retry2", Options(TRUE, TRUE))
        ELSE [Stop(s, "failToSummarize") EXCEPT
                 !.escs[i].stopCalled = TRUE, !.escs[i].pc = "fin"]

\* the retries with their options exchanged
escContinueSwapped(s, i) ==
    LET e == s.escs[i]
        n == Len(e.results)
    IN  IF e.results[n]
        THEN [s EXCEPT !.escs[i].pc = "fin"]
        ELSE IF n = 1
        THEN summarizeBegin(s, i, "retry1", Options(TRUE, TRUE))
        ELSE IF n = 2
        THEN summarizeBegin(s, i, "retry2", Options(TRUE, FALSE))
        ELSE [Stop(s, "failToSummarize") EXCEPT
                 !.escs[i].stopCalled = TRUE, !.escs[i].pc = "fin"]

\* the escalation gives up after the second failure
escContinueEarlyStop(s, i) ==
    LET e == s.escs[i]
        n == Len(e.results)
    IN  IF e.results[n]
        THEN [s EXCEPT !.escs[i].pc = "fin"]
        ELSE IF n = 1
        THEN summarizeBegin(s, i, "retry1", Options(TRUE, FALSE))
        ELSE [Stop(s, "failToSummarize") EXCEPT
                 !.escs[i].stopCalled = TRUE, !.escs[i].pc = "fin"]

\* the async body of trySummarize goes on after an attempt has returned
escContinue(s, i) ==
    LET e == s.escs[i]
        n == Len(e.results)
    IN  IF e.results[n]
        THEN [s EXCEPT !.escs[i].pc = "fin"]
        ELSE IF n = 1
        THEN summarizeBegin(s, i, "retry1", Options(TRUE, FALSE))
        ELSE IF n = 2
        THEN summarizeBegin(s, i, "retry2", Options(TRUE, TRUE))
        ELSE [Stop(s, "failToSummarize") EXCEPT
                 !.escs[i].stopCalled = TRUE, !.escs[i].pc = "fin"]

EscContinue ==
    \E i \in DOMAIN escs :
       /\ escs[i].pc = "ret"
       /\ Apply(escContinue(St, i))

\* a callback that runs only when the async body returned, as `then` would
escFinallyOnReturnOnly(s, i) ==
    IF s.escs[i].cause = "exception"
    THEN [s EXCEPT !.escs = RemoveAt(s.escs, i),
                   !.stopInFlight = FALSE, !.kTriggers = 0,
                   !.followUp = FALSE]
    ELSE LET s1 == [s EXCEPT !.summarizing = FALSE,
                             !.wsReleased =
                                 (s.fpc = "waitStop") \/ s.wsReleased,
                             !.escs = RemoveAt(s.escs, i),
                             !.stopInFlight = FALSE,
                             !.kTriggers = 0]
         IN  IF s1.tryWhileSummarizing /\ ~s1.stopping /\ ~s1.rsDisposed
             THEN run([s1 EXCEPT !.tryWhileSummarizing = FALSE,
                                 !.followUp = TRUE])
             ELSE [s1 EXCEPT !.followUp = FALSE]

\* a finalizer that does not look at `stopping`
escFinallyIgnoresStopping(s, i) ==
    LET s1 == [s EXCEPT !.summarizing = FALSE,
                        !.wsReleased = (s.fpc = "waitStop") \/ s.wsReleased,
                        !.escs = RemoveAt(s.escs, i),
                        !.stopInFlight = FALSE,
                        !.kTriggers = 0]
    IN  IF s1.tryWhileSummarizing /\ ~s1.rsDisposed
        THEN run([s1 EXCEPT !.tryWhileSummarizing = FALSE,
                            !.followUp = TRUE])
        ELSE [s1 EXCEPT !.followUp = FALSE]

\* a finally callback that clears `summarizing` without resolving it
escFinallyUnresolved(s, i) ==
    LET s1 == [s EXCEPT !.summarizing = FALSE,
                        !.escs = RemoveAt(s.escs, i),
                        !.stopInFlight = FALSE,
                        !.kTriggers = 0]
    IN  IF s1.tryWhileSummarizing /\ ~s1.stopping /\ ~s1.rsDisposed
        THEN run([s1 EXCEPT !.tryWhileSummarizing = FALSE,
                            !.followUp = TRUE])
        ELSE [s1 EXCEPT !.followUp = FALSE]

\* the finally callback of trySummarize
escFinally(s, i) ==
    LET s1 == [s EXCEPT !.summarizing = FALSE,
                        !.wsReleased = (s.fpc = "waitStop") \/ s.wsReleased,
                        !.escs = RemoveAt(s.escs, i),
                        !.stopInFlight = FALSE,
                        !.kTriggers = 0]
    IN  IF s1.tryWhileSummarizing /\ ~s1.stopping /\ ~s1.rsDisposed
        THEN run([s1 EXCEPT !.tryWhileSummarizing = FALSE,
                            !.followUp = TRUE])
        ELSE [s1 EXCEPT !.followUp = FALSE]

EscFinally ==
    \E i \in DOMAIN escs :
       /\ escs[i].pc = "fin"
       /\ Apply(escFinally(St, i))

\* Summarizer.run whose runCore returns at a failed precondition
RunNotStarted ==
    /\ Quiet /\ fpc = "notRun"
    /\ \E active \in BOOLEAN, onBehalfOf \in BOOLEAN :
          LET reason == notStartedReason(waitStart(St), active,
                                         elected /\ onBehalfOf)
          IN  /\ reason # "none"
              /\ Apply([dispose([St EXCEPT !.cleanupConnected = connected,
                                           !.closeFnCalled = connected])
                           EXCEPT !.fpc = "done",
                                  !.event =
                                      [kind |-> "notStarted",
                                       reason |-> reason,
                                       active |-> active,
                                       computed |-> elected /\ onBehalfOf]])

\* Summarizer.run up to the waitStart race of RunningSummarizer.start
RunStart ==
    /\ Quiet /\ fpc = "notRun"
    /\ notStartedReason(waitStart(St), TRUE, elected) = "none"
    /\ LET firstAck == Attempt(initialSequenceNumber, now, Undefined)
       IN  Apply([St EXCEPT !.lastOpSeqNumber = streamSeq,
                            !.lastAttempted = firstAck,
                            !.lastAcked = firstAck,
                            !.aliased = TRUE,
                            !.defaultTimeout =
                                maxAckWaitTime(configuration),
                            !.pendingAckTimer =
                                now + maxAckWaitTime(configuration),
                            !.ackByOpsTimeout =
                                maxAckWaitTime(configuration),
                            !.ackByOpsCallback = TRUE,
                            !.fpc = "starting"])

\* summaryWatcher.waitFlushed() wins the waitStart race
StartFlushed ==
    /\ Quiet /\ fpc = "starting"
    /\ \/ Apply([startContinue(St, FALSE, NoAck)
                     EXCEPT !.event = StartEvent("flushedNoAck", NoAck)])
       \/ \E ref \in {initialSequenceNumber, lastOpSeqNumber},
             time \in {0, now} :
             LET ack == Attempt(ref, time, ref)
             IN  Apply([startContinue([St EXCEPT !.latestAck =
                                                     SummaryAck(ref, ref)],
                                      TRUE, ack)
                          EXCEPT !.event = StartEvent("flushedAck", ack)])

\* waitSummaryAck settles in handleSummaryAcks
AckObserved ==
    /\ ackLoop.pc = "waiting" /\ AckReady(St)
    /\ \E outcome \in {"ack", "throw"} :
          /\ outcome = "throw" => faults < faultBudget
          /\ Apply([handleSummaryAcksWaited(
                        [St EXCEPT !.faults = IF outcome = "throw"
                                              THEN @ + 1 ELSE @],
                        outcome)
                       EXCEPT !.event = LoopEvent("waitSummaryAck", outcome)])

\* refreshLatestSummaryAck settles in handleSummaryAcks
AckRefreshed ==
    /\ ackLoop.pc = "refreshing"
    /\ \E outcome \in {"ok", "throw", "escape"} :
          /\ outcome # "ok" => faults < faultBudget
          /\ Apply([handleSummaryAcksRefreshed(
                        [St EXCEPT !.faults = IF outcome # "ok"
                                              THEN @ + 1 ELSE @],
                        outcome)
                       EXCEPT !.event =
                                  LoopEvent("refreshLatestSummaryAck",
                                            outcome)])

\* waitStop is called again on a RunningSummarizer that run's cleanup has
\* already asked to stop
WaitStopAgain ==
    /\ Quiet /\ waitStopCalled /\ event.kind # "waitStopAgain"
    /\ Apply([waitStop(St) EXCEPT !.event = [kind |-> "waitStopAgain"]])

\* the host calls Summarizer.stop(reason)
HostStop ==
    /\ Quiet /\ fpc # "done"
    /\ Apply(Stop(St, "parentNotConnected"))

\* the runtime emits "disconnected"
Disconnect ==
    /\ Quiet /\ Attentive /\ connected
    /\ Apply([St EXCEPT !.connected = FALSE, !.coordStopped = TRUE])

\* the parent is no longer the elected summarizer
LoseElection ==
    /\ Quiet /\ Attentive /\ elected
    /\ Apply([St EXCEPT !.elected = FALSE, !.coordStopped = TRUE,
                         !.summarizerClientId = "other"])

\* a cleanup that does not look at runtime.connected
runCleanupUnconditional(s) ==
    LET s1 == [s EXCEPT !.cleanupConnected = s.connected]
    IN  [waitStop([s1 EXCEPT !.waitStopCalled = TRUE])
            EXCEPT !.fpc = "waitStop"]

\* the cleanup of Summarizer.run, up to its await of waitStop
runCleanup(s) ==
    LET s1 == [s EXCEPT !.cleanupConnected = s.connected]
    IN  IF s1.connected
        THEN [waitStop([s1 EXCEPT !.waitStopCalled = TRUE])
                 EXCEPT !.fpc = "waitStop"]
        ELSE [dispose(s1) EXCEPT !.fpc = "done"]

RunCleanup ==
    /\ ~EscMicro
    /\ fpc = "running" /\ (stopped \/ coordStopped)
    /\ Apply(runCleanup(St))

\* the cleanup of Summarizer.run after waitStop has returned
runClose(s) ==
    [dispose([s EXCEPT !.waitStopReturned = TRUE, !.closeFnCalled = TRUE])
        EXCEPT !.fpc = "done"]

RunClose ==
    /\ ~EscMicro
    /\ fpc = "waitStop" /\ wsReleased
    /\ Apply(runClose(St))

Next ==
    \/ Tick
    \/ InboundOp
    \/ StreamAdvance
    \/ BatchEnd
    \/ IdleTimerFire
    \/ AckByOpsFallback
    \/ PendingAckTimerFire
    \/ GenerateSummaryDone
    \/ StrayAckNack
    \/ Broadcast
    \/ AckNack
    \/ EscContinue
    \/ EscFinally
    \/ RunNotStarted
    \/ RunStart
    \/ StartFlushed
    \/ HostStop
    \/ Disconnect
    \/ LoseElection
    \/ RunCleanup
    \/ RunClose
    \/ AckObserved
    \/ AckRefreshed

Spec == Init /\ [][Next]_vars

\* ------------------------------------------- runs that follow the attempts

\* a summarizer about to run, in an environment that delivers the summary ops
\* of several attempts and may throw into the ack-refresh loop
InitAttempts == Blank /\ streamBudget = MaxAttemptOps /\ faultBudget = MaxFaults

\* a batch that is delivered without error between two escalations
PlainBatchEnd ==
    /\ ~summarizing
    /\ BatchEnd
    /\ ~event'.error

\* summarize leaves its wait for the broadcast or for the ack with an
\* exception none of its catch clauses handles; its finally clears the
\* pending-ack timer and the async body of trySummarize rejects
summarizeThrows(s, i) ==
    clearPendingAckTimer([s EXCEPT !.escs[i].cause = "exception",
                                   !.escs[i].pc = "fin"])

\* the summary watcher rejects a wait of an attempt
AttemptThrows ==
    \E i \in DOMAIN escs :
        /\ Quiet /\ escs[i].pc \in {"broadcast", "acknack"}
        /\ faults < faultBudget
        /\ Apply(summarizeThrows([St EXCEPT !.faults = @ + 1], i))

\* generateSummary returns a summary that was submitted
GenerateSubmitted ==
    /\ GenerateSummaryDone
    /\ \E i \in DOMAIN escs' : escs'[i].pc = "broadcast"

\* an elected summarizer: its attempts, their summary ops and timers, the
\* ack-refresh loop, the host's stop and the loss of the connection
NextAttempts ==
    \/ Tick
    \/ HostStop
    \/ Disconnect
    \/ AttemptThrows
    \/ PlainBatchEnd
    \/ IdleTimerFire
    \/ PendingAckTimerFire
    \/ GenerateSubmitted
    \/ Broadcast
    \/ AckNack
    \/ EscContinue
    \/ EscFinally
    \/ RunStart
    \/ StartFlushed
    \/ RunCleanup
    \/ RunClose
    \/ AckObserved
    \/ AckRefreshed
    \/ WaitStopAgain

AttemptSpec == InitAttempts /\ [][NextAttempts]_vars

\* ------------------------------------- runs whose summarize op is lost

\* a summarizer about to run, in an environment that delivers a few ops and
\* throws nothing into the ack-refresh loop
InitTimeout == Blank /\ streamBudget = MaxStreamOps /\ faultBudget = 0

\* the deadlines of the timers that are armed
Deadlines == {idleTimer, pendingAckTimer} \ {NoTimer}

\* time passes until the next timer is due
Elapse ==
    /\ Quiet /\ Live /\ fpc # "notRun"
    /\ Deadlines # {} /\ \A d \in Deadlines : d > now
    /\ \E d \in Deadlines :
          /\ \A other \in Deadlines : d <= other
          /\ Apply([St EXCEPT !.now = d])

\* a connected, elected summarizer whose generator always submits and whose
\* summarize ops are never delivered; its timers fire when they are due
NextTimeout ==
    \/ Elapse
    \/ PlainBatchEnd
    \/ IdleTimerFire
    \/ PendingAckTimerFire
    \/ GenerateSubmitted
    \/ EscContinue
    \/ EscFinally
    \/ RunStart
    \/ StartFlushed
    \/ RunCleanup
    \/ RunClose
    \/ AckObserved
    \/ AckRefreshed

\* run() is called, timers fire once due, the generator returns, and every
\* continuation that is scheduled runs
TimeoutSpec ==
    /\ InitTimeout /\ [][NextTimeout]_vars
    /\ WF_vars(RunStart) /\ WF_vars(Elapse)
    /\ WF_vars(IdleTimerFire) /\ WF_vars(PendingAckTimerFire)
    /\ WF_vars(GenerateSubmitted)
    /\ WF_vars(EscContinue) /\ WF_vars(EscFinally)
    /\ WF_vars(AckObserved) /\ WF_vars(AckRefreshed)
    /\ WF_vars(RunCleanup) /\ WF_vars(RunClose)

\* ------------------------------------------- a changing computed summarizer

InitElection ==
    Blank /\ streamBudget = MaxStreamOps /\ faultBudget = 0

\* the quorum computes another summarizer client; the coordinator's stop
\* signal resolves when it is neither the parent nor this client
Elect ==
    /\ Quiet /\ Live
    /\ \E id \in ClientIds \ {summarizerClientId} :
          LET ours == id \in {onBehalfOfClientId, runtimeClientId}
          IN  Apply([St EXCEPT !.summarizerClientId = id,
                               !.elected = ours,
                               !.coordStopped = @ \/ (Attentive /\ ~ours)])

\* a summarizer whose computed summarizer client changes while it runs
NextElection ==
    \/ Elect
    \/ Tick
    \/ PlainBatchEnd
    \/ IdleTimerFire
    \/ PendingAckTimerFire
    \/ GenerateSummaryDone
    \/ Broadcast
    \/ AckNack
    \/ EscContinue
    \/ EscFinally
    \/ RunNotStarted
    \/ RunStart
    \/ StartFlushed
    \/ RunCleanup
    \/ RunClose
    \/ AckObserved
    \/ AckRefreshed

ElectionSpec == InitElection /\ [][NextElection]_vars

\* ------------------------------- progress without broadcast, ack or nack

InitProgress ==
    Blank /\ streamBudget = MaxStreamOps /\ faultBudget = 0

\* enough ops for a last summary are sequenced before run() is called
EarlyOps ==
    /\ fpc = "notRun" /\ streamOps = 0 /\ streamOps < streamBudget
    /\ Apply(Sequenced(St, minOpsForLastSummary + 1))

\* a summarizer whose generator always settles and whose timers fire when
\* they are due; summarize ops, acks and nacks may or may not arrive, the
\* host may stop it and the connection may drop
NextProgress ==
    \/ Elapse
    \/ EarlyOps
    \/ IdleTimerFire
    \/ PendingAckTimerFire
    \/ GenerateSummaryDone
    \/ Broadcast
    \/ AckNack
    \/ EscContinue
    \/ EscFinally
    \/ RunStart
    \/ StartFlushed
    \/ HostStop
    \/ Disconnect
    \/ RunCleanup
    \/ RunClose
    \/ AckObserved
    \/ AckRefreshed

\* run() is called, armed timers fire once due, every generateSummary call
\* settles and every continuation that is scheduled runs; nothing is assumed
\* of the stream, the host and the connection
ProgressSpec ==
    /\ InitProgress /\ [][NextProgress]_vars
    /\ WF_vars(RunStart \/ StartFlushed)
    /\ WF_vars(Elapse \/ IdleTimerFire \/ PendingAckTimerFire)
    /\ WF_vars(GenerateSummaryDone)
    /\ WF_vars(EscContinue \/ EscFinally \/ RunCleanup \/ RunClose)
    /\ WF_vars(AckObserved \/ AckRefreshed)

\* ------------------------------------------------ a container that lives on

InitLate ==
    Blank /\ streamBudget = MaxStreamOps /\ faultBudget = 0

\* the runtime connects again after run() has ended without closing it
Reconnect ==
    /\ Quiet /\ fpc = "done" /\ ~closeFnCalled /\ ~connected
    /\ Apply([St EXCEPT !.connected = TRUE])

\* the summary collection, which the facade was handed at construction and
\* does not dispose, takes the summarize op and the summaryAck of a client
LateSummaryAck ==
    /\ Quiet /\ fpc = "done" /\ ~closeFnCalled /\ connected
    /\ streamOps < streamBudget
    /\ Apply([Sequenced(St, 2) EXCEPT
                 !.latestAck = SummaryAck(streamSeq, streamSeq + 1)])

\* a summarizer that loses its connection, so that run() ends without
\* closing the container, which then connects again
NextLate ==
    \/ Tick
    \/ PlainBatchEnd
    \/ IdleTimerFire
    \/ PendingAckTimerFire
    \/ GenerateSummaryDone
    \/ Broadcast
    \/ AckNack
    \/ EscContinue
    \/ EscFinally
    \/ RunStart
    \/ StartFlushed
    \/ Disconnect
    \/ RunCleanup
    \/ RunClose
    \/ Reconnect
    \/ LateSummaryAck
    \/ AckObserved
    \/ AckRefreshed

LateSpec == InitLate /\ [][NextLate]_vars

\* -------------------------------------------------------- WorkerService

\* a worker object: new SnapshotWork, IntelWork, SpellcheckerWork,
\* TranslationWork or PingWork
Work(kind) == [kind |-> kind]

\* a worker started for the registration (docId, workType)
Started(docId, workType, worker) ==
    [docId |-> docId, workType |-> workType, kind |-> worker.kind]

\* a queued work item
WorkItem(docId, workType) == [docId |-> docId, workType |-> workType]

\* the work item just processed; `known` tells that its pair was registered
WorkEvent(docId, workType, services, known) ==
    [kind |-> "work", docId |-> docId, workType |-> workType,
     services |-> services, known |-> known]

\* workType in documentMap[docId]
Registered(s, docId, workType) ==
    /\ docId \in DOMAIN s.documentMap
    /\ workType \in DOMAIN s.documentMap[docId]

\* startTask that registers and starts whatever is registered already
startTaskUnguarded(s, docId, workType, worker) ==
    LET s1 == IF docId \notin DOMAIN s.documentMap
              THEN [s EXCEPT !.documentMap = (docId :> EmptyMap) @@ @]
              ELSE s
    IN  [s1 EXCEPT !.documentMap[docId] = (workType :> worker) @@ @,
                   !.started =
                       @ (+) SetToBag({Started(docId, workType, worker)})]

\* WorkerService.startTask; every worker passed is an object, and both
\* branches on "intel" call start()
startTask(s, docId, workType, worker) ==
    LET s1 == IF docId \notin DOMAIN s.documentMap
              THEN [s EXCEPT !.documentMap = (docId :> EmptyMap) @@ @]
              ELSE s
    IN  IF workType \notin DOMAIN s1.documentMap[docId]
        THEN [s1 EXCEPT !.documentMap[docId] = (workType :> worker) @@ @,
                        !.started =
                            @ (+) SetToBag({Started(docId, workType, worker)})]
        ELSE s1

\* WorkerService.stopTask
stopTask(s, docId, workType) ==
    IF Registered(s, docId, workType)
    THEN LET taskMap == s.documentMap[docId]
             task == taskMap[workType]
         IN  [s EXCEPT !.started =
                           @ (-) SetToBag({Started(docId, workType, task)}),
                       !.documentMap[docId] =
                           [w \in DOMAIN taskMap \ {workType} |-> taskMap[w]]]
    ELSE s

\* the callback processDocumentWork hands to getServiceForDoc(docId).then;
\* the translation case has no break and runs on into the ping case, and an
\* unknown work type throws
processDocumentWork(s, docId, workType, services) ==
    IF ~services THEN s
    ELSE CASE workType = "snapshot" ->
                  startTask(s, docId, workType, Work("snapshot"))
           [] workType = "intel" ->
                  startTask(s, docId, workType, Work("intel"))
           [] workType = "spell" ->
                  startTask(s, docId, workType, Work("spell"))
           [] workType = "translation" ->
                  startTask(startTask(s, docId, workType, Work("translation")),
                            docId, workType, Work("ping"))
           [] workType = "ping" ->
                  startTask(s, docId, workType, Work("ping"))
           [] OTHER -> s

\* WorkerService.revokeDocumentWork; an unknown work type throws
revokeDocumentWork(s, docId, workType) ==
    IF workType \in WorkTypes THEN stopTask(s, docId, workType) ELSE s

\* a TaskObject message: the item is queued, the queue hands it to
\* processDocumentWork, which asks for the document's service and returns
TaskObject ==
    /\ workItems < MaxWorkItems
    /\ \E docId \in Docs, workType \in RequestedTypes :
          Apply([St EXCEPT !.workItems = @ + 1,
                           !.pendingWork =
                               @ (+) SetToBag({WorkItem(docId, workType)})])

\* getServiceForDoc resolves, with a service or without one
ServiceResolved ==
    \E work \in BagToSet(pendingWork), services \in BOOLEAN :
        LET s == [St EXCEPT !.pendingWork = @ (-) SetToBag({work})]
        IN  Apply([processDocumentWork(s, work.docId, work.workType, services)
                      EXCEPT !.event =
                          WorkEvent(work.docId, work.workType, services,
                                    Registered(St, work.docId,
                                               work.workType))])

\* getServiceForDoc rejects: the error is logged
ServiceRejected ==
    \E work \in BagToSet(pendingWork) :
        Apply([St EXCEPT !.pendingWork = @ (-) SetToBag({work}),
                         !.event = [kind |-> "workError",
                                    docId |-> work.docId,
                                    workType |-> work.workType]])

\* a RevokeObject message
RevokeObject ==
    /\ workItems < MaxWorkItems
    /\ \E docId \in Docs, workType \in RequestedTypes :
          Apply([revokeDocumentWork(St, docId, workType)
                     EXCEPT !.workItems = @ + 1])

\* a worker service just constructed
InitWorker == Blank /\ streamBudget = 0 /\ faultBudget = 0

NextWorker ==
    \/ TaskObject
    \/ ServiceResolved
    \/ ServiceRejected
    \/ RevokeObject

WorkerSpec == InitWorker /\ [][NextWorker]_vars

\* ------------------------------------------- configurations of the ack wait

\* values of configuration.maxAckWaitTime: below, at and above the cap
AckWaitConfigs ==
    {maxAckWaitTimeCfg, maxSummarizeAckWaitTime - 1, maxSummarizeAckWaitTime,
     maxSummarizeAckWaitTime + 1, 2 * maxSummarizeAckWaitTime}

\* a summarizer about to run under any of the configurations
InitAckWait ==
    /\ Unstarted /\ streamBudget = MaxStreamOps /\ faultBudget = 0
    /\ configuration \in [maxAckWaitTime : AckWaitConfigs]

\* the summarizer runs, time passes from deadline to deadline, summarize ops
\* and their acks arrive or the fallback clears the timer
NextAckWait ==
    \/ Elapse
    \/ EarlyOps
    \/ IdleTimerFire
    \/ PendingAckTimerFire
    \/ AckByOpsFallback
    \/ GenerateSummaryDone
    \/ Broadcast
    \/ AckNack
    \/ EscContinue
    \/ EscFinally
    \/ RunStart
    \/ StartFlushed
    \/ HostStop
    \/ RunCleanup
    \/ RunClose
    \/ AckObserved
    \/ AckRefreshed

AckWaitSpec == InitAckWait /\ [][NextAckWait]_vars

\* ---------------------------------------------------------------- claims

Last(q) == q[Len(q)]

\* the step taken is the finalizer of the escalation
FinallyStep == escs # << >> /\ escs[1].pc = "fin" /\ escs' # escs

\* the step taken starts a new escalation
StartStep ==
    /\ escs' # << >>
    /\ Len(Last(escs').calls) = 1
    /\ summarizeCount' = summarizeCount + 1

\* the step taken is the first call of waitStop
WaitStopStep == ~waitStopCalled /\ waitStopCalled'

\* C1: at most one escalation exists and at most one generateSummary call is
\* outstanding, and an escalation exists only while `summarizing` is set
C1_SingleFlight ==
    /\ Len(escs) <= 1
    /\ Cardinality({i \in DOMAIN escs : escs[i].pc = "generate"}) <= 1
    /\ escs # << >> => summarizing

C1_Witness ==
    /\ summarizing /\ tryWhileSummarizing /\ kTriggers >= 1
    /\ escs # << >> /\ escs[1].pc = "generate"

Expected(reason) ==
    << Call(reason, Options(FALSE, FALSE)),
       Call("retry1", Options(TRUE, FALSE)),
       Call("retry2", Options(TRUE, TRUE)) >>

\* C2: the attempts of an escalation are, in this order, `reason` with
\* {false,false}, retry1 with {true,false}, retry2 with {true,true}; an
\* attempt is only made after all earlier ones failed, and never a fourth
C2_RetryOrder ==
    \A i \in DOMAIN escs :
        LET e == escs[i]
        IN  /\ Len(e.calls) \in 1..3
            /\ \A j \in 1..Len(e.calls) : e.calls[j] = Expected(e.reason)[j]
            /\ Len(e.results) \in {Len(e.calls) - 1, Len(e.calls)}
            /\ \A j \in 1..(Len(e.calls) - 1) : ~e.results[j]

C2_Witness ==
    /\ escs # << >> /\ escs[1].pc = "generate" /\ Len(escs[1].calls) = 3

\* C3: an escalation invokes stop("failToSummarize") exactly when its three
\* attempts have all returned false
C3_FailToSummarize ==
    \A i \in DOMAIN escs :
        LET e == escs[i]
        IN  /\ e.pc # "fin" => ~e.stopCalled
            /\ e.pc = "fin" =>
                   /\ e.stopCalled <=> e.results = << FALSE, FALSE, FALSE >>
                   /\ e.stopCalled => stopped

C3_Witness ==
    escs # << >> /\ escs[1].pc = "fin" /\ escs[1].stopCalled

\* C4 as stated: the finalizer makes the follow-up run() exactly when at
\* least one trigger arrived during the escalation
C4_Original ==
    [][FinallyStep => (followUp' <=> kTriggers >= 1)]_vars

\* C4 amended: the finalizer makes the one follow-up run() exactly when at
\* least one trigger arrived during the escalation and the RunningSummarizer
\* is neither stopping nor disposed
C4_Coalescing ==
    [][FinallyStep =>
          (followUp' <=> (kTriggers >= 1 /\ ~stopping /\ ~rsDisposed))]_vars

C4_Witness ==
    /\ escs # << >> /\ escs[1].pc = "fin" /\ kTriggers >= 2
    /\ ~stopping /\ ~rsDisposed

C6_AckedIsAttempted ==
    \A i \in DOMAIN escs :
        (escs[i].pc = "ret" /\ Last(escs[i].results)) =>
            (lastAcked = lastAttempted /\ aliased)

C6_Witness ==
    /\ escs # << >> /\ escs[1].pc = "ret" /\ Last(escs[1].results)
    /\ lastAcked.summarySequenceNumber # Undefined
    /\ lastAcked.summaryTime > 0

\* C7 as stated: the idle timer is never armed while `summarizing` is set
C7_Original == ~(summarizing /\ idleTimer # NoTimer)

\* C7 amended: the idle timer is not armed when an attempt is started by
\* heuristics.run() or by the firing of the idle timer
C7_NotArmedAtTrigger ==
    [][(StartStep /\ Last(escs').reason \in {"idle", "maxTime", "maxOps"})
          => idleTimer' = NoTimer]_vars

C7_Witness ==
    /\ escs # << >> /\ escs[1].reason = "maxOps" /\ Len(escs[1].calls) = 1
    /\ idleTimer = NoTimer /\ listeners

HasLastSummary(q) == \E i \in DOMAIN q : q[i].reason = "lastSummary"

\* C8 as stated: the first waitStop starts a lastSummary attempt exactly when
\* more than 50 ops are outstanding
C8_Original ==
    [][WaitStopStep =>
          (HasLastSummary(escs') <=>
              outstandingOps' > minOpsForLastSummary)]_vars

\* C8 amended: the first waitStop starts a lastSummary attempt exactly when
\* more than 50 ops are outstanding and no attempt is in flight
C8_LastSummary ==
    [][WaitStopStep =>
          (HasLastSummary(escs') <=>
              (outstandingOps' > minOpsForLastSummary /\ ~summarizing))]_vars

C8_Witness ==
    /\ waitStopCalled /\ outstandingOps > minOpsForLastSummary
    /\ HasLastSummary(escs)

\* C9 as stated: after stop() during an escalation, the RunningSummarizer is
\* not disposed and closeFn() is not called while that escalation lasts
C9_Original == stopInFlight => (~rsDisposed /\ ~closeFnCalled)

\* C9 amended: the same, when the cleanup finds the runtime connected and
\* waitStop finds more than 50 ops outstanding
C9_StopWaits ==
    (stopInFlight /\ cleanupConnected
        /\ outstandingOps > minOpsForLastSummary)
        => (~rsDisposed /\ ~closeFnCalled)

C9_Witness ==
    /\ stopInFlight /\ fpc = "waitStop" /\ ~wsReleased
    /\ outstandingOps > minOpsForLastSummary

Returned(e) == e.pc = "ret"

C12_ClearedIsNotTimeout ==
    /\ \A i \in DOMAIN escs :
          (Returned(escs[i]) /\ ~Last(escs[i].results)
              /\ escs[i].message \in {"summaryOpWaitTimeout",
                                      "summaryAckWaitTimeout"})
              => escs[i].cause = "timeout"
    /\ (event.kind = "start" /\ event.how = "cancel")
          => lastAcked.summarySequenceNumber = Undefined

\* C13: an attempt is completed by an ack or a nack only after it has seen
\* the broadcast of its summarize op, and an ack or nack sequenced before the
\* broadcast leaves the attempt waiting for the broadcast
C13_BroadcastBeforeAck ==
    /\ \A i \in DOMAIN escs :
          LET e == escs[i]
          IN  /\ e.cause \in {"summaryAck", "summaryNack"} => e.sawBroadcast
              /\ e.pc = "acknack" =>
                    /\ e.sawBroadcast
                    /\ lastAttempted.summarySequenceNumber # Undefined
              /\ (Returned(e) /\ Last(e.results)) => e.sawBroadcast
    /\ event.kind = "stray" =>
          /\ escs # << >> /\ escs[1].pc = "broadcast"
          /\ Len(escs[1].results) = Len(escs[1].calls) - 1
          /\ ~aliased

C13_Witness ==
    /\ escs # << >> /\ Returned(escs[1]) /\ escs[1].cause = "summaryNack"
    /\ escs[1].sawBroadcast
    /\ lastAttempted.summarySequenceNumber = streamSeq - 1

\* C14: the pending-ack timer runs from the submit of an attempt to its end
\* with the deadline set at the submit, through the broadcast, and is not
\* armed in an attempt before the submit or after the attempt has ended
C14_AckWaitWindow ==
    \A i \in DOMAIN escs :
        LET e == escs[i]
        IN  IF e.pc \in {"broadcast", "acknack"}
            THEN pendingAckTimer =
                     lastAttempted.summaryTime + maxAckWaitTime(configuration)
            ELSE pendingAckTimer = NoTimer

C14_Witness ==
    /\ escs # << >> /\ escs[1].pc = "acknack"
    /\ now > lastAttempted.summaryTime
    /\ pendingAckTimer # NoTimer

HandledOp ==
    \/ event'.kind = "batchEnd" /\ ~event'.error
    \/ /\ event'.kind = "system"
       /\ event'.op.type \in {"leave", "join", "propose", "reject"}
       /\ ~(event'.op.type = "leave" /\ event'.op.data \in {"self", "parent"})

\* the step taken made one trigger with `reason`: it started an escalation
\* with it, or set tryWhileSummarizing when one was in flight
Triggered(reason) ==
    IF summarizing
    THEN tryWhileSummarizing' /\ escs' = escs
             /\ summarizeCount' = summarizeCount
    ELSE StartStep /\ Len(escs') = 1 /\ escs'[1].reason = reason
             /\ escs'[1].pc = "generate" /\ summarizing'

\* the step taken made no trigger
NotTriggered ==
    /\ escs' = escs /\ summarizeCount' = summarizeCount
    /\ tryWhileSummarizing' = tryWhileSummarizing
    /\ summarizing' = summarizing

\* the step taken evaluated heuristics.run()
RunEvaluated ==
    \/ idleTimer' = now + idleTime /\ NotTriggered
    \/ idleTimer' = NoTimer
          /\ (Triggered("maxTime") \/ Triggered("maxOps"))

\* the heuristics and the trigger state are as they were
NothingChanged ==
    /\ UNCHANGED << lastOpSeqNumber, lastAttempted, lastAcked, aliased,
                    idleTimer, summarizing, tryWhileSummarizing, escs,
                    summarizeCount, summarizeTimer, pendingAckTimer >>

\* C16: handleOp without error sets lastOpSeqNumber to the op's sequence
\* number; for a Save op it triggers `save;<clientId>: <contents>` at once
\* (an attempt starts in the same step when none is in flight) and leaves the
\* idle timer as it was, not evaluating run(); for any other op it evaluates
\* run()
C16_SaveTriggers ==
    [][(event'.kind = "batchEnd" /\ ~event'.error) =>
          /\ lastOpSeqNumber' = event'.op.sequenceNumber
          /\ IF event'.op.type = "save"
             THEN /\ Triggered(SaveReason(event'.op.clientId,
                                          event'.op.contents))
                  /\ idleTimer' = idleTimer
             ELSE RunEvaluated]_vars

C16_Witness ==
    /\ event.kind = "batchEnd" /\ ~event.error /\ event.op.type = "save"
    /\ escs # << >> /\ escs[1].reason = "save;c: x"
    /\ escs[1].pc = "generate" /\ Len(escs[1].calls) = 1
    /\ idleTimer # NoTimer /\ now < idleTimer
    /\ lastOpSeqNumber = event.op.sequenceNumber

\* C17: handleOp with an error changes nothing, whatever the op
C17_ErrorDropped ==
    [][(event'.kind = "batchEnd" /\ event'.error) => NothingChanged]_vars

C17_Witness ==
    /\ event.kind = "batchEnd" /\ event.error /\ event.op.type = "save"
    /\ lastOpSeqNumber < event.op.sequenceNumber
    /\ ~summarizing /\ idleTimer # NoTimer

\* C18: handleSystemOp changes nothing for the leave of this client or of the
\* parent client and for system ops other than leave, join, propose, reject;
\* for the other ones it does what handleOp does without error: it sets
\* lastOpSeqNumber and evaluates run()
C18_SystemOps ==
    [][event'.kind = "system" =>
          IF HandledOp
          THEN lastOpSeqNumber' = event'.op.sequenceNumber /\ RunEvaluated
          ELSE NothingChanged]_vars

C18_Witness ==
    /\ event.kind = "system" /\ event.op.type = "leave"
    /\ event.op.data = "parent"
    /\ lastOpSeqNumber < event.op.sequenceNumber
    /\ idleTimer # NoTimer

\* the step taken evaluated heuristics.run() on behalf of an op or of startup
RunStep ==
    \/ HandledOp /\ ~(event'.kind = "batchEnd" /\ event'.op.type = "save")
    \/ event'.kind = "start"

\* C19: run() cancels the idle timer and then triggers maxTime iff the time
\* since the last ack exceeds maxTime, else triggers maxOps iff the ops since
\* the last ack exceed maxOps, else re-arms the idle timer for idleTime; when
\* it triggers, the idle timer stays unarmed
C19_RunOutcome ==
    [][RunStep =>
          LET timeSinceLastSummary == now - lastAcked'.summaryTime
              opCountSinceLastSummary ==
                  lastOpSeqNumber' - lastAcked'.refSequenceNumber
          IN  IF timeSinceLastSummary > maxTime
              THEN Triggered("maxTime") /\ idleTimer' = NoTimer
              ELSE IF opCountSinceLastSummary > maxOps
              THEN Triggered("maxOps") /\ idleTimer' = NoTimer
              ELSE idleTimer' = now + idleTime /\ NotTriggered]_vars

C19_Witness ==
    /\ event.kind = "batchEnd" /\ ~event.error /\ event.op.type = "op"
    /\ now - lastAcked.summaryTime > maxTime
    /\ lastOpSeqNumber - lastAcked.refSequenceNumber > maxOps
    /\ escs # << >> /\ escs[1].reason = "maxTime" /\ idleTimer = NoTimer

\* C20: when the startup race ends, an ack yielded by the flush becomes both
\* lastAttempted and lastAcked, and otherwise the initial attempt given to the
\* constructor is kept; the pending-ack timer is cleared and the ack-by-ops
\* fallback removed, the first run() decides on the attempt so installed, and
\* no attempt exists before that step
C20_Startup ==
    [][/\ event'.kind = "start" =>
             /\ IF event'.how = "flushedAck"
                THEN lastAttempted' = event'.ack /\ lastAcked' = event'.ack
                ELSE lastAttempted' = lastAttempted /\ lastAcked' = lastAcked
             /\ aliased'
             /\ pendingAckTimer' = NoTimer /\ ~ackByOpsCallback'
             /\ escs = << >> /\ summarizeCount = 0 /\ ~summarizing
             /\ RunEvaluated
             /\ idleTimer' = NoTimer <=>
                    \/ now - lastAcked'.summaryTime > maxTime
                    \/ lastOpSeqNumber' - lastAcked'.refSequenceNumber
                           > maxOps
       /\ fpc' \in {"notRun", "starting"} =>
             escs' = << >> /\ summarizeCount' = 0 /\ ~summarizing']_vars

C20_Witness ==
    /\ event.kind = "start" /\ event.how = "flushedAck"
    /\ lastAcked.refSequenceNumber > 0 /\ lastAcked = lastAttempted
    /\ lastAcked.summaryTime = now
    /\ idleTimer # NoTimer /\ escs = << >>

\* C21: when a precondition of run fails, the first one that fails in the
\* order waitStart, deltaManager.active, computed summarizer gives the reason
\* of NotStarted, and the run creates no RunningSummarizer, installs no
\* listener, does not start the ack-refresh loop and never calls
\* generateSummary
C21_NotStarted ==
    [][/\ event'.kind = "notStarted" =>
             /\ event'.reason =
                    (IF ~connected \/ coordStopped
                     THEN "DisconnectedBeforeRun"
                     ELSE IF ~event'.active THEN "CannotWrite"
                     ELSE "DifferentComputedSummarizer")
             /\ fpc = "notRun" /\ fpc' = "done"
             /\ ~runningSummarizer' /\ ~rsDisposed' /\ ~listeners'
             /\ ackLoop' = LoopOff
             /\ escs' = << >> /\ summarizeCount' = 0
       /\ (fpc = "done" /\ ~rsDisposed) =>
             /\ ~runningSummarizer' /\ ~listeners' /\ ackLoop' = LoopOff
             /\ escs' = << >> /\ summarizeCount' = 0]_vars

\* a run is refused while the client is disconnected and cannot write
C21_Witness ==
    /\ event.kind = "notStarted"
    /\ event.reason = "DisconnectedBeforeRun" /\ ~event.active
    /\ fpc = "done" /\ ackLoop = LoopOff /\ summarizeCount = 0

\* C22: stop is idempotent: only the first call marks the summarizer stopped,
\* logs its reason and resolves the stop signal; a later call, whatever its
\* reason, changes nothing
C22_StopOnce ==
    [][stopped => stopped' /\ stopReason' = stopReason]_vars

\* the host has stopped the summarizer, and the escalation in flight has
\* called stop("failToSummarize") after its third failure
C22_Witness ==
    /\ stopped /\ stopReason = "parentNotConnected"
    /\ \E i \in DOMAIN escs : escs[i].stopCalled

\* the step taken is the call of RunningSummarizer.dispose
DisposeStep == ~rsDisposed /\ rsDisposed'

\* C23: RunningSummarizer.dispose disposes the watcher, cancels the idle
\* timer, the summarize timer and the pending-ack timer and sets `disposed`;
\* right after it no timer is pending, and a second call changes nothing
C23_DisposeOnce ==
    [][DisposeStep =>
          /\ watcherDisposed' /\ rsDisposed'
          /\ idleTimer' = NoTimer /\ ~summarizeTimer'
          /\ pendingAckTimer' = NoTimer
          /\ (rsDispose(St) = St)']_vars

\* dispose has cancelled the idle timer and the pending-ack timer an attempt
\* was waiting on
C23_Witness ==
    /\ rsDisposed /\ watcherDisposed
    /\ idleTimer = NoTimer /\ pendingAckTimer = NoTimer /\ ~summarizeTimer
    /\ \E i \in DOMAIN escs :
          escs[i].cause = "cancel" /\ escs[i].pc = "ret"

\* C24: a waitStop made after the first one returns at once on a disposed
\* RunningSummarizer and only awaits the attempt in flight on a stopping one:
\* it sets nothing and triggers nothing, so that trySummarize("lastSummary")
\* is called at most once in the life of a RunningSummarizer
C24_WaitStopReentry ==
    [][/\ event'.kind = "waitStopAgain" =>
             /\ rsDisposed \/ stopping
             /\ UNCHANGED << stopping, rsDisposed, summarizing, escs,
                             summarizeCount, tryWhileSummarizing, kTriggers,
                             outstandingOps, lastSummaryTriggers, idleTimer,
                             summarizeTimer, pendingAckTimer, lastAttempted,
                             lastAcked, stopped, fpc, wsReleased >>
       /\ lastSummaryTriggers' <= 1]_vars

\* waitStop has been called again on a disposed RunningSummarizer
C24_Disposed == event.kind = "waitStopAgain" /\ rsDisposed

\* waitStop is called again while the last summary it triggered the first
\* time is still in flight
C24_Witness ==
    /\ event.kind = "waitStopAgain"
    /\ stopping /\ ~rsDisposed /\ summarizing
    /\ lastSummaryTriggers = 1

\* the step taken is a step of the ack-refresh loop
LoopStep == event'.kind = "ackLoop"

\* C25: the ack-refresh loop starts waiting at initialSequenceNumber, calls
\* refreshLatestSummaryAck once for each ack waitSummaryAck hands it, with
\* the handles of that ack, refreshes no ack twice, and the reference
\* sequence number it passes to waitSummaryAck strictly increases from one
\* iteration to the next
C25_AckRefresh ==
    [][/\ (ackLoop.pc = "off" /\ ackLoop'.pc # "off") =>
             ackLoop'.waited = initialSequenceNumber
       /\ ackLoop'.refreshed # ackLoop.refreshed =>
             /\ LoopStep /\ event'.outcome = "ack"
             /\ ackLoop'.refreshed = Append(ackLoop.refreshed, latestAck)
             /\ latestAck.refSequenceNumber >= ackLoop.waited
             /\ \A j \in DOMAIN ackLoop.refreshed :
                   ackLoop.refreshed[j].handle # latestAck.handle
       /\ (LoopStep /\ event'.outcome = "ack") =>
             ackLoop'.refreshed # ackLoop.refreshed
       /\ (LoopStep /\ ackLoop'.pc = "waiting") =>
             ackLoop'.waited > ackLoop.waited]_vars

\* the loop has refreshed two acks, the second with a later summarize op
C25_Witness ==
    /\ Len(ackLoop.refreshed) = 2
    /\ ackLoop.refreshed[1].refSequenceNumber
           < ackLoop.refreshed[2].refSequenceNumber
    /\ ackLoop.pc = "waiting"
    /\ ackLoop.waited = ackLoop.refreshed[2].refSequenceNumber + 1

\* C26: an error thrown by waitSummaryAck or by refreshLatestSummaryAck inside
\* the loop is caught there: the loop goes on, stop is not called and no
\* warning is emitted; the HandleSummaryAckFatalError warning and its stop()
\* come only from an error that escapes the loop
C26_LoopErrors ==
    [][/\ (LoopStep /\ event'.outcome = "throw") =>
             /\ ackLoop'.pc = (IF runningSummarizer THEN "waiting"
                                ELSE "ended")
             /\ ackLoop'.warning = "none"
             /\ UNCHANGED << stopped, stopReason, escs, fpc >>
       /\ (LoopStep /\ event'.outcome = "escape") =>
             /\ ackLoop'.warning = "Summarizer: HandleSummaryAckFatalError"
             /\ stopped' /\ ackLoop'.pc = "fatal"
             /\ stopped \/ stopReason' = "undefined"
       /\ (ackLoop'.warning # ackLoop.warning
               \/ (stopReason' = "undefined" /\ stopReason # "undefined")) =>
             LoopStep /\ event'.outcome = "escape"]_vars

\* waitSummaryAck has thrown, and the loop waits again one position further
C26_Witness ==
    /\ event = LoopEvent("waitSummaryAck", "throw")
    /\ ackLoop.pc = "waiting" /\ ackLoop.waited = initialSequenceNumber + 1
    /\ ackLoop.warning = "none" /\ ~stopped /\ runningSummarizer

\* the idle-triggered attempt of escalation e was submitted, broadcast and
\* acked at the first try
AckedAtOnce(e) ==
    /\ e.reason = "idle" /\ e.results = << TRUE >>
    /\ e.pc \in {"ret", "fin"}

\* what holds once an idle-triggered attempt has been acked at the first try
HappyPath ==
    \A i \in DOMAIN escs :
       AckedAtOnce(escs[i]) =>
          /\ lastAcked.refSequenceNumber = escs[i].genRef
          /\ summarizeCount = escs[i].count0 + 1
          /\ escs[i].emitted = 0 /\ escs[i].warning = "none"
          /\ ~escs[i].stopCalled /\ stopReason # "failToSummarize"

NackThenAck(e) == e.results = << FALSE, TRUE >> /\ e.message = "summaryNack"

\* the first attempt of escalation e has just been nacked
Nacked(e) ==
    e.results = << FALSE >> /\ e.message = "summaryNack" /\ e.pc = "ret"

\* C28: when the first attempt is nacked and retry1 is acked, the observer
\* has received exactly one summarizingError (one from the nacked attempt,
\* none from retry1), summarizeCount has grown by two, retry1 was made with
\* {refreshLatestAck: true, fullTree: false}, no retry2 is made and stop is
\* not called
C28_NackThenAck ==
    \A i \in DOMAIN escs :
       /\ Nacked(escs[i]) => escs[i].emitted = 1
       /\ NackThenAck(escs[i]) =>
          /\ escs[i].emitted = 0
          /\ summarizeCount = escs[i].count0 + 2
          /\ Len(escs[i].calls) = 2
          /\ escs[i].calls[2] = Call("retry1", Options(TRUE, FALSE))
          /\ escs[i].pc \in {"ret", "fin"}
          /\ ~escs[i].stopCalled /\ stopReason # "failToSummarize"

\* the finalizer of an escalation whose retry1 was acked after a nack is due
C28_Witness ==
    \E i \in DOMAIN escs :
       /\ NackThenAck(escs[i]) /\ escs[i].pc = "fin"
       /\ escs[i].cause = "summaryAck" /\ escs[i].emitted = 0
       /\ lastAcked.refSequenceNumber = escs[i].genRef

\* every attempt made so far by escalation e has failed waiting for the
\* broadcast of its summarize op
OnlyOpWaitTimeouts(e) ==
    /\ \A j \in DOMAIN e.results : ~e.results[j]
    /\ e.results # << >> => e.message = "summaryOpWaitTimeout"
    /\ e.cause \in {"none", "timeout"}
    /\ Len(e.calls) <= 3
    /\ e.stopCalled => Len(e.results) = 3

\* C29: when the generator always returns a submitted summary and no
\* summarize op is ever delivered, every attempt fails with
\* summaryOpWaitTimeout, the escalation makes exactly three attempts, and
\* stop("failToSummarize") is eventually called
C29_TimeoutsThenStop ==
    /\ [](\A i \in DOMAIN escs : OnlyOpWaitTimeouts(escs[i]))
    /\ [](stopped => stopReason = "failToSummarize")
    /\ <>(stopReason = "failToSummarize")

\* the third attempt has timed out and the escalation has called stop
C29_Witness ==
    \E i \in DOMAIN escs :
       /\ escs[i].stopCalled /\ escs[i].results = << FALSE, FALSE, FALSE >>
       /\ escs[i].message = "summaryOpWaitTimeout"
       /\ escs[i].cause = "timeout"
       /\ stopReason = "failToSummarize"

\* the finalizer of the escalation is due because its async body has
\* returned or has thrown
Ending == escs # << >> /\ escs[1].pc = "fin"

\* C30: when an escalation ends, be it by success, by three failures or by an
\* exception, the finalizer resolves and clears `summarizing`; it makes the
\* follow-up heuristics.run() exactly when tryWhileSummarizing is set and the
\* RunningSummarizer is neither stopping nor disposed, and resets the flag
\* for it
C30_Finalizer ==
    [][(Ending /\ escs' # escs) =>
          /\ fpc = "waitStop" => wsReleased'
          /\ followUp' <=>
                (tryWhileSummarizing /\ ~stopping /\ ~rsDisposed)
          /\ IF followUp'
             THEN /\ ~tryWhileSummarizing'
                  /\ \/ ~summarizing' /\ escs' = << >>
                           /\ idleTimer' = now + idleTime
                     \/ summarizing' /\ Len(escs') = 1
                           /\ escs'[1].reason \in {"maxTime", "maxOps"}
                           /\ Len(escs'[1].calls) = 1
             ELSE /\ ~summarizing' /\ escs' = << >>
                  /\ UNCHANGED << tryWhileSummarizing, idleTimer,
                                  summarizeCount >>]_vars

\* the finalizer of the only escalation so far, which ended by the exception
\* thrown into its wait, has made the follow-up heuristics.run()
C30_Witness ==
    /\ followUp /\ ~tryWhileSummarizing /\ ~summarizing
    /\ summarizeCount = 1 /\ faults = 1
    /\ ackLoop.refreshed = << >>
    /\ ackLoop.refSequenceNumber \in {Undefined, initialSequenceNumber}
    /\ idleTimer = now + idleTime
\* an attempt begins: summarize counts it and calls generateSummary
BeginStep == summarizeCount' # summarizeCount

\* C31: every generateSummary call invokes the generator once; the facade
\* stops with parentNoLongerSummarizer when the computed summarizer client is
\* neither the on-behalf-of client nor this client, and does not stop when it
\* is one of them; the generator's result is what the attempt continues with
C31_GenerateSummary ==
    [][/\ BeginStep =>
            /\ summarizeCount' = summarizeCount + 1
            /\ Len(escs') = 1 /\ escs'[1].pc = "generate"
            /\ IF summarizerClientId' \notin
                      {onBehalfOfClientId, runtimeClientId}
               THEN /\ stopped'
                    /\ ~stopped => stopReason' = "parentNoLongerSummarizer"
               ELSE /\ stopped' = stopped /\ stopReason' = stopReason
       /\ event'.kind = "generated" =>
            /\ escs[1].pc = "generate" /\ escs'[1].pc # "generate"
            /\ summarizeCount' = summarizeCount
            /\ escs'[1].pc = "broadcast" <=> event'.outcome = "submitted"
            /\ escs'[1].genRef = IF event'.outcome = "throw" THEN Undefined
                                 ELSE event'.ref
            /\ event'.outcome # "submitted" =>
                  /\ escs'[1].cause = event'.outcome
                  /\ escs'[1].message = "generateSummaryFailure"]_vars

\* the computed summarizer is this client, not the parent, and an attempt has
\* called generateSummary without a stop
C31_Witness ==
    /\ summarizerClientId = runtimeClientId
    /\ escs # << >> /\ escs[1].pc = "generate" /\ ~stopped

\* the computed summarizer is a third client and generateSummary has stopped
\* the summarizer
C31_Stopped ==
    /\ summarizerClientId = "other"
    /\ escs # << >> /\ escs[1].pc = "generate"
    /\ stopped /\ stopReason = "parentNoLongerSummarizer"
\* C32: once RunningSummarizer.dispose() has been called, no attempt begins:
\* no generateSummary call is started, be it by a trigger, by the finalizer or
\* by the retry1 and retry2 steps of an escalation in flight
C32_NoCallAfterDispose ==
    [][rsDisposed => ~BeginStep]_vars
\* C33: once RunningSummarizer.dispose() has returned, the idle timer, the
\* summarizeTimer and the pendingAckTimer stay unarmed, whatever an attempt
\* was awaiting at the moment of dispose
C33_NoTimerAfterDispose ==
    rsDisposed =>
        /\ idleTimer = NoTimer
        /\ ~summarizeTimer
        /\ pendingAckTimer = NoTimer
\* C34: once an escalation's stop("failToSummarize") has taken effect, no
\* attempt begins: neither the follow-up heuristics.run() of the finalizer nor
\* the waitStop() that the stop provokes starts a generateSummary call
C34_NoAttemptAfterFailure ==
    [][stopReason = "failToSummarize" => ~BeginStep]_vars
\* C35: after the facade has been disposed, refreshLatestSummaryAck is not
\* invoked: the ack-refresh loop makes no refresh call, not even for an ack
\* that resolves the waitSummaryAck it was awaiting at dispose
C35_NoRefreshAfterDispose ==
    [][fDisposed => ackLoop'.refreshed = ackLoop.refreshed]_vars
\* the attempt of the escalation goes from pc `from` to pc `to`
AttemptStep(from, to) ==
    /\ escs # << >> /\ escs' # << >>
    /\ escs[1].pc = from /\ escs'[1].pc = to

\* C36: lastAcked changes only when initialize installs the flushed ack at
\* startup and when an attempt is acked; an attempt that fails leaves it
\* unchanged, and so does the write of summarySequenceNumber into
\* lastAttempted when the broadcast is observed
C36_LastAckedFrame ==
    [][/\ lastAcked' # lastAcked =>
            \/ /\ fpc = "starting" /\ event'.kind = "start"
               /\ event'.ack # NoAck /\ lastAcked' = event'.ack
            \/ /\ AttemptStep("acknack", "ret") /\ Last(escs'[1].results)
               /\ lastAcked' = lastAttempted
       /\ AttemptStep("broadcast", "acknack") =>
            /\ lastAcked' = lastAcked
            /\ lastAttempted' =
                  [lastAttempted EXCEPT !.summarySequenceNumber = streamSeq']
       /\ (\E from \in {"generate", "broadcast", "acknack"} :
              AttemptStep(from, "ret") /\ ~Last(escs'[1].results)) =>
            lastAcked' = lastAcked]_vars

\* the first attempt after a flushed ack was installed has seen its summarize
\* op: lastAttempted carries its sequence number, lastAcked is the flushed ack
C36_Witness ==
    /\ escs # << >> /\ escs[1].pc = "acknack" /\ summarizeCount = 1
    /\ lastAttempted.summarySequenceNumber = streamSeq
    /\ lastAcked.summarySequenceNumber # Undefined
    /\ lastAcked.summarySequenceNumber < streamSeq
\* C37 as stated: a failed attempt has invoked the raise-warning callback
\* exactly once, whatever the failure, and a successful attempt never
C37_Original ==
    \A i \in DOMAIN escs :
        Returned(escs[i]) =>
            escs[i].raised = IF Last(escs[i].results) THEN 0 ELSE 1

\* C37 amended: a successful attempt has not invoked the raise-warning
\* callback; an attempt that failed because the pending-ack timer fired has
\* invoked it twice, once from the timer's handler and once from fail; every
\* other failed attempt has invoked it once
C37_WarningsPerAttempt ==
    \A i \in DOMAIN escs :
        Returned(escs[i]) =>
            escs[i].raised = IF Last(escs[i].results) THEN 0
                             ELSE IF escs[i].cause = "timeout" THEN 2
                             ELSE 1

\* an attempt has failed with summaryAckWaitTimeout after the timer fired
C37_Witness ==
    /\ escs # << >> /\ Returned(escs[1]) /\ ~Last(escs[1].results)
    /\ escs[1].message = "summaryAckWaitTimeout"
    /\ escs[1].cause = "timeout" /\ escs[1].raised = 2
\* an escalation is in flight and is not one that a finalizer has begun in
\* the step just taken
InFlight == escs # << >> /\ ~followUp

\* the finalizer of an escalation has run: no escalation is left, or its
\* follow-up heuristics.run() has just been made
Completed == escs = << >> \/ followUp

\* C38: if every generateSummary call settles and armed timers fire, every
\* escalation completes, whether or not a summarize op, an ack or a nack is
\* delivered: its finalizer resolves and clears `summarizing`; and every call
\* of waitStop() returns
C38_Progress ==
    /\ [](escs = << >> => ~summarizing)
    /\ InFlight ~> Completed
    /\ waitStopCalled ~> waitStopReturned

\* waitStop has called for the last summary, has waited for the escalation
\* in flight and has returned, with no summarize op, ack or nack delivered
C38_Witness ==
    /\ waitStopReturned /\ lastSummaryTriggers = 1
    /\ streamOps = 1 /\ streamSeq = minOpsForLastSummary + 1
    /\ escs = << >> /\ ~summarizing

\* the workers of the bag that run under the registration
StartedFor(bag, docId, workType) ==
    {w \in BagToSet(bag) : w.docId = docId /\ w.workType = workType}

\* C39: a translation work item processed with a service leaves exactly one
\* worker registered and started for (document, translation), the
\* translation worker; it starts and registers no ping worker, and a work
\* item of any type whose pair is registered already starts and registers
\* nothing
C39_Translation ==
    [][event'.kind = "work" /\ event'.services =>
          LET docId == event'.docId
              workType == event'.workType
              known == /\ docId \in DOMAIN documentMap
                       /\ workType \in DOMAIN documentMap[docId]
              translation == Started(docId, "translation", Work("translation"))
          IN  /\ known => documentMap' = documentMap /\ started' = started
              /\ workType = "translation" =>
                    /\ documentMap'[docId]["translation"].kind = "translation"
                    /\ StartedFor(started', docId, "translation") = {translation}
                    /\ CopiesIn(translation, started') = 1
                    /\ ~known => started' =
                                     started (+) SetToBag({translation})
                    /\ \A w \in BagToSet(started') :
                          w.kind = "ping" => BagIn(w, started)
                    /\ "ping" \in DOMAIN documentMap'[docId] <=>
                            /\ docId \in DOMAIN documentMap
                            /\ "ping" \in DOMAIN documentMap[docId]]_vars

\* a second translation work item for a document was processed: the
\* translation worker of the first one is the only worker of the document
C39_Witness ==
    /\ event.kind = "work" /\ event.workType = "translation"
    /\ event.services /\ event.known
    /\ DOMAIN documentMap[event.docId] = {"translation"}
    /\ documentMap[event.docId]["translation"] = Work("translation")
    /\ started = SetToBag({Started(event.docId, "translation",
                                    Work("translation"))})

\* the ack wait the configuration stands for
CappedAckWait ==
    IF configuration.maxAckWaitTime <= 120000
    THEN configuration.maxAckWaitTime
    ELSE 120000

\* C40: the pending-ack timer, at startup and in every attempt, is armed for
\* min(config.maxAckWaitTime, 120000), the ack-by-ops fallback is installed
\* with the same wait, and neither the configuration nor the two waits
\* change once they are set
C40_AckWait ==
    [][/\ (pendingAckTimer' # NoTimer /\ pendingAckTimer' # pendingAckTimer)
            => pendingAckTimer' = now + CappedAckWait
       /\ ackByOpsCallback' => ackByOpsTimeout' = CappedAckWait
       /\ configuration' = configuration
       /\ defaultTimeout # Undefined => defaultTimeout' = defaultTimeout
       /\ ackByOpsTimeout # Undefined
            => ackByOpsTimeout' = ackByOpsTimeout]_vars

\* under a configured wait above the cap an attempt has armed the timer
\* after the startup timer was armed and cleared
C40_Witness ==
    /\ configuration.maxAckWaitTime > maxSummarizeAckWaitTime
    /\ fpc = "running" /\ escs # << >> /\ escs[1].pc = "acknack"
    /\ pendingAckTimer = lastAttempted.summaryTime + 120000
    /\ ackByOpsTimeout = 120000
====
